---- MODULE Spec2Model ----
(***************************************************************************)
(* A model of the data-lake engine of openclaw-tools: the unified data     *)
(* model (UnifiedData, SchemaInference), the dataset registry (DataLake)   *)
(* with its storage collaborator, the ETL pipeline engine (Pipeline), the   *)
(* schema validator, and the performance helpers (PageLoader, Sampler,     *)
(* StreamProcessor, VirtualScroll).                                        *)
(***************************************************************************)
EXTENDS Integers, Sequences, FiniteSets, TLC

VARIABLES
  heap,        \* the UnifiedData objects allocated so far; a reference is an index
  datasets,    \* DataLake.datasets : id -> reference
  metadata,    \* DataLake.metadata : id -> lifecycle record
  hasStorage,  \* whether DataLake.storage is attached
  stored,      \* the storage collaborator's content : id -> reference of the saved form
  calls,       \* the create/update/delete/clone/merge invocations, in issue order
  now,         \* Date.now()
  budget,      \* how many create/update/delete/clone/merge calls a run may issue
  lastCall,    \* the most recent call that looked an id up without changing the registry
  source,      \* Pipeline.source
  steps,       \* Pipeline.steps
  result,      \* Pipeline.result
  resultNo,    \* how many result ids generateId('result') has handed out
  lastRun,     \* the most recent execute()/preview() and its outcome
  produced,    \* the dataset objects execute() has returned, oldest first
  cache,       \* PageLoader.cache : page index -> entry
  loadedPages, \* PageLoader.loadedPages
  loadingPages,\* PageLoader.loadingPages
  loads,       \* the loadPage() invocations, in call order, each with its position
  processor,   \* the StreamProcessor: chunkSize and its callbacks
  run,         \* the process() invocation: its arguments, locals and position
  events,      \* the callbacks process() has made, in order
  validator,   \* a SchemaValidator, and the rows handed to its validate()
  report,      \* what validate() returned
  sampling,    \* the arguments of a Sampler call
  sampled,     \* what the Sampler call returned
  scroll,      \* a VirtualScroll object
  range,       \* what the VirtualScroll's latest query returned
  serialized,  \* what DataLake.serialize() returned
  revived      \* the registry DataLake.deserialize() built

lakeVars == <<heap, datasets, metadata, hasStorage, stored, calls, now, budget, lastCall>>
pipeVars == <<source, steps, result, resultNo, lastRun, produced>>
loaderVars == <<cache, loadedPages, loadingPages, loads>>
streamVars == <<processor, run, events>>
perfVars == <<cache, loadedPages, loadingPages, loads, processor, run, events>>
utilVars == <<validator, report, sampling, sampled, scroll, range>>
copyVars == <<serialized, revived>>
vars == <<heap, datasets, metadata, hasStorage, stored, calls, now, budget, lastCall,
          source, steps, result, resultNo, lastRun, produced,
          cache, loadedPages, loadingPages, loads, processor, run, events,
          validator, report, sampling, sampled, scroll, range, serialized, revived>>

(***************************************************************************)
(* Bounds of the model.                                                    *)
(***************************************************************************)
MaxCalls == 3
MaxLookupCalls == 2
MaxTicks == 1
MaxSteps == 2
MaxRuns == 2
MaxRestoreCalls == 2
MaxLoads == 4
MaxData == 4

(***************************************************************************)
(* Values, rows and small helpers.  A JavaScript value is a tagged record; *)
(* a row is an object, kept as the sequence of its own <<key, value>>      *)
(* entries in insertion order.                                             *)
(***************************************************************************)
IntV(n) == [t |-> "int", v |-> n]
StrV(s) == [t |-> "str", v |-> s]
NullV == [t |-> "null", v |-> 0]
Undefined == [t |-> "undef", v |-> 0]
BoolV(b) == [t |-> "bool", v |-> b]

NoRec == [k \in {} |-> 0]

Merge(a, b) == [k \in DOMAIN a \cup DOMAIN b |-> IF k \in DOMAIN b THEN b[k] ELSE a[k]]

Keys(row) == {row[i].k : i \in 1..Len(row)}

HasKey(row, key) == key \in Keys(row)

Get(row, key) ==
  IF HasKey(row, key)
  THEN LET i == CHOOSE j \in 1..Len(row) : row[j].k = key IN row[i].v
  ELSE Undefined

SetKey(row, key, val) ==
  IF HasKey(row, key)
  THEN [i \in 1..Len(row) |-> IF row[i].k = key THEN [k |-> key, v |-> val] ELSE row[i]]
  ELSE Append(row, [k |-> key, v |-> val])

DelKey(row, key) == SelectSeq(row, LAMBDA e : e.k # key)

Row1(k1, v1) == <<[k |-> k1, v |-> v1]>>
Row2(k1, v1, k2, v2) == <<[k |-> k1, v |-> v1], [k |-> k2, v |-> v2]>>

(***************************************************************************)
(* SchemaInference.                                                        *)
(***************************************************************************)
inferType(value) ==
  CASE value.t \in {"null", "undef"} -> "null"
    [] value.t = "int" -> "integer"
    [] value.t = "float" -> "float"
    [] value.t = "bool" -> "boolean"
    [] OTHER -> "string"

infer(data) ==
  IF Len(data) = 0
  THEN [columns |-> <<>>]
  ELSE LET firstRow == data[1]
           column(i) ==
             LET key == firstRow[i].k
                 types == {inferType(Get(data[r], key)) : r \in 1..Len(data)}
             IN [name |-> key,
                 type |-> IF Cardinality(types) > 1 THEN "mixed" ELSE inferType(firstRow[i].v),
                 nullable |-> TRUE]
       IN [columns |-> [i \in 1..Len(firstRow) |-> column(i)]]

(***************************************************************************)
(* UnifiedData.  The constructor takes each field from its options unless  *)
(* the field is missing or falsy, and then the default.                    *)
(***************************************************************************)
IdPool == <<"ds_1", "ds_2", "ds_3", "ds_4", "ds_5", "ds_6">>

uuidv4 == IdPool[Len(calls) + 1]

UnifiedData(options, freshId, t) ==
  [id |-> IF "id" \in DOMAIN options /\ options.id # "" THEN options.id ELSE freshId,
   type |-> IF "type" \in DOMAIN options /\ options.type # "" THEN options.type ELSE "custom",
   name |-> IF "name" \in DOMAIN options /\ options.name # ""
            THEN options.name ELSE "Untitled Dataset",
   timestamp |-> IF "timestamp" \in DOMAIN options /\ options.timestamp # 0
                 THEN options.timestamp ELSE t,
   schema |-> IF "schema" \in DOMAIN options THEN options.schema ELSE [columns |-> <<>>],
   data |-> IF "data" \in DOMAIN options THEN options.data ELSE <<>>,
   metadata |-> IF "metadata" \in DOMAIN options THEN options.metadata ELSE NoRec,
   version |-> IF "version" \in DOMAIN options /\ options.version # ""
               THEN options.version ELSE "1.0.0"]

toJSON(obj) ==
  [id |-> obj.id, type |-> obj.type, name |-> obj.name, timestamp |-> obj.timestamp,
   schema |-> obj.schema, data |-> obj.data, metadata |-> obj.metadata,
   version |-> obj.version]

getRowCount(obj) == Len(obj.data)

cloneData(obj, freshId, t) ==
  UnifiedData([id |-> freshId, type |-> obj.type, name |-> obj.name \o " (copy)",
               timestamp |-> t, schema |-> obj.schema, data |-> obj.data,
               metadata |-> Merge(obj.metadata, [copied_from |-> obj.id])],
              freshId, t)

(***************************************************************************)
(* Inputs of the registry's operations.                                    *)
(***************************************************************************)
RowsA == <<Row2("a", IntV(1), "b", StrV("x"))>>
RowsB == <<Row2("a", IntV(2), "b", StrV("y")), Row2("a", IntV(3), "b", NullV)>>

\* create(name, rows, options)
CreateInputs ==
  {[name |-> "sales", rows |-> RowsA, options |-> NoRec],
   [name |-> "raw", rows |-> RowsB, options |-> [metadata |-> [source_file |-> "f.csv"]]]}

\* update(id, partial, options)
UpdateInputs ==
  {[partial |-> [name |-> "renamed"], options |-> [metadata |-> [owner |-> "me"]]],
   [partial |-> [id |-> "ds_6", data |-> RowsB, schema |-> infer(RowsB)], options |-> NoRec],
   [partial |-> [name |-> "", metadata |-> [owner |-> "you"]], options |-> NoRec]}

\* the names a caller may hand to an operation in place of an id
Names == {"sales"}

\* an id no dataset ever gets
AbsentId == "ds_6"

\* what a caller may pass as an id: a registered id, one that is not, or a name
LookupKeys == DOMAIN datasets \cup {AbsentId} \cup Names

\* merge(ids)
MergeInputs ==
  {<<IdPool[1]>>, <<IdPool[1], IdPool[2]>>, <<IdPool[2], IdPool[1]>>, <<AbsentId, IdPool[1]>>}

(***************************************************************************)
(* DataLake.                                                               *)
(***************************************************************************)
MapSet(m, key, val) == [x \in DOMAIN m \cup {key} |-> IF x = key THEN val ELSE m[x]]

MapDelete(m, key) == [x \in DOMAIN m \ {key} |-> m[x]]

get(id) == IF id \in DOMAIN datasets THEN datasets[id] ELSE 0

list ==
  {[id |-> id,
    name |-> heap[datasets[id]].name,
    type |-> heap[datasets[id]].type,
    rowCount |-> getRowCount(heap[datasets[id]]),
    columnCount |-> Len(heap[datasets[id]].schema.columns),
    createdAt |-> IF id \in DOMAIN metadata /\ "createdAt" \in DOMAIN metadata[id]
                  THEN metadata[id].createdAt ELSE 0,
    updatedAt |-> IF id \in DOMAIN metadata /\ "updatedAt" \in DOMAIN metadata[id]
                  THEN metadata[id].updatedAt ELSE 0] : id \in DOMAIN datasets}

Pending(i) == i \in 1..Len(calls) /\ calls[i].st = "pending"

CanCall == Len(calls) < budget

\* the storage collaborator is asked only when one is attached
\* (an invocation keeps its arguments and the time it was issued at)
Issued(op, id, ref, req, arg) ==
  [op |-> op, id |-> id, ref |-> ref, arg |-> arg, at |-> now,
   req |-> IF hasStorage THEN req ELSE "none",
   st |-> IF hasStorage THEN "pending" ELSE "ok"]

\* the synchronous part of create(): both maps are set, then storage.save is awaited
register(op, unified, options) ==
  /\ heap' = Append(heap, unified)
  /\ datasets' = MapSet(datasets, unified.id, Len(heap) + 1)
  /\ metadata' = MapSet(metadata, unified.id,
                        Merge([createdAt |-> now, updatedAt |-> now, version |-> 1],
                              IF "metadata" \in DOMAIN options THEN options.metadata ELSE NoRec))
  /\ calls' = Append(calls, Issued(op, unified.id, Len(heap) + 1, "save", NoRec))

create(name, rows, options) ==
  /\ CanCall
  /\ register("create",
              UnifiedData([name |-> name,
                           type |-> IF "type" \in DOMAIN options THEN options.type ELSE "array",
                           schema |-> IF "schema" \in DOMAIN options
                                      THEN options.schema ELSE infer(rows),
                           data |-> rows,
                           metadata |-> IF "metadata" \in DOMAIN options
                                        THEN options.metadata ELSE NoRec],
                          uuidv4, now),
              options)
  /\ UNCHANGED <<hasStorage, stored, now, budget, lastCall>>

Create == \E in \in CreateInputs : create(in.name, in.rows, in.options) /\ UNCHANGED <<pipeVars, perfVars, utilVars, copyVars>>

\* (a variant that throws only after the storage call was issued)
notFoundAfterSave(op, key) ==
  /\ lastCall' = [op |-> op, key |-> key, out |-> "NotFound", ref |-> 0]
  /\ calls' = Append(calls, Issued(op, key, 0, "save", NoRec))
  /\ UNCHANGED <<heap, datasets, metadata, hasStorage, stored, now, budget>>

\* an operation that throws before it changes anything
notFound(op, key) ==
  /\ lastCall' = [op |-> op, key |-> key, out |-> "NotFound", ref |-> 0]
  /\ UNCHANGED <<heap, datasets, metadata, hasStorage, stored, calls, now, budget>>

\* (a variant that lets partial.id through)
updatedKeyedByPartial(existing, partial, options, id) ==
  UnifiedData(
    Merge(Merge(toJSON(existing), partial),
          [metadata |->
             Merge(Merge(existing.metadata,
                         IF "metadata" \in DOMAIN options THEN options.metadata ELSE NoRec),
                   [version |-> (IF "version" \in DOMAIN existing.metadata
                                 THEN existing.metadata.version ELSE 0) + 1,
                    updatedAt |-> now])]),
    id, now)

\* the dataset value update() builds: partial over the serialized form, the id kept,
\* the metadata rebuilt from the held dataset's metadata and options.metadata
updated(existing, partial, options, id) ==
  UnifiedData(
    Merge(Merge(toJSON(existing), partial),
          [id |-> id,
           metadata |->
             Merge(Merge(existing.metadata,
                         IF "metadata" \in DOMAIN options THEN options.metadata ELSE NoRec),
                   [version |-> (IF "version" \in DOMAIN existing.metadata
                                 THEN existing.metadata.version ELSE 0) + 1,
                    updatedAt |-> now])]),
    id, now)

\* what update() does to the object the registry held: nothing
heldAfterUpdate(existing, partial) == existing

\* what update() does to the lifecycle table: nothing
metadataAfterUpdate(id) == metadata

update(id, partial, options) ==
  IF id \notin DOMAIN datasets
  THEN notFound("update", id)
  ELSE /\ CanCall
       /\ heap' = Append([heap EXCEPT ![datasets[id]] = heldAfterUpdate(@, partial)],
                         updated(heap[datasets[id]], partial, options, id))
       /\ datasets' = MapSet(datasets, id, Len(heap) + 1)
       /\ metadata' = metadataAfterUpdate(id)
       /\ calls' = Append(calls, Issued("update", id, Len(heap) + 1, "save",
                                        [partial |-> partial, options |-> options]))
       /\ UNCHANGED <<hasStorage, stored, now, budget, lastCall>>

Update ==
  \E id \in DOMAIN datasets, in \in UpdateInputs :
    update(id, in.partial, in.options) /\ UNCHANGED <<pipeVars, perfVars, utilVars, copyVars>>

UpdateAbsent ==
  \E id \in LookupKeys \ DOMAIN datasets, in \in UpdateInputs :
    update(id, in.partial, in.options) /\ UNCHANGED <<pipeVars, perfVars, utilVars, copyVars>>

\* (variants that leave an entry behind)
datasetsKeptOnDelete(id) == datasets

metadataKeptOnDelete(id) == metadata

datasetsAfterDelete(id) == MapDelete(datasets, id)

metadataAfterDelete(id) == MapDelete(metadata, id)

delete(id) ==
  /\ CanCall
  /\ datasets' = datasetsAfterDelete(id)
  /\ metadata' = metadataAfterDelete(id)
  /\ calls' = Append(calls, Issued("delete", id, 0, "delete", NoRec))
  /\ UNCHANGED <<heap, hasStorage, stored, now, budget, lastCall>>

Delete == \E id \in DOMAIN datasets \cup {AbsentId} : delete(id) /\ UNCHANGED <<pipeVars, perfVars, utilVars, copyVars>>

clone(id, newName) ==
  IF id \notin DOMAIN datasets
  THEN notFound("clone", id)
  ELSE LET copy == cloneData(heap[datasets[id]], uuidv4, now)
           cloned == IF newName # "" THEN [copy EXCEPT !.name = newName] ELSE copy
       IN /\ CanCall
          /\ register("clone", cloned,
                      [type |-> cloned.type,
                       metadata |-> Merge([cloned_from |-> id], cloned.metadata)])
          /\ UNCHANGED <<hasStorage, stored, now, budget, lastCall>>

Clone ==
  \E id \in DOMAIN datasets, newName \in {"", "backup"} :
    clone(id, newName) /\ UNCHANGED <<pipeVars, perfVars, utilVars, copyVars>>

CloneAbsent ==
  \E id \in LookupKeys \ DOMAIN datasets, newName \in {"", "backup"} :
    clone(id, newName) /\ UNCHANGED <<pipeVars, perfVars, utilVars, copyVars>>

RECURSIVE allData(_)
allData(ids) ==
  IF ids = <<>>
  THEN <<>>
  ELSE (IF ids[1] \in DOMAIN datasets THEN heap[datasets[ids[1]]].data ELSE <<>>)
       \o allData(Tail(ids))

mergedName(n) == IF n = 1 THEN "Merged 1 datasets" ELSE "Merged 2 datasets"

merge(ids) ==
  IF ids[1] \notin DOMAIN datasets
  THEN notFound("merge", ids[1])
  ELSE create(mergedName(Len(ids)), allData(ids),
              [type |-> "merged",
               metadata |-> [source_datasets |-> ids, merged_at |-> now]])

MergeDatasets ==
  \E ids \in MergeInputs : ids[1] \in DOMAIN datasets /\ merge(ids) /\ UNCHANGED <<pipeVars, perfVars, utilVars, copyVars>>

MergeAbsent ==
  \E ids \in MergeInputs : ids[1] \notin DOMAIN datasets /\ merge(ids) /\ UNCHANGED <<pipeVars, perfVars, utilVars, copyVars>>

\* the pipeline returned is bound to the held dataset: lastCall.ref is its source
createPipeline(sourceId) ==
  IF sourceId \notin DOMAIN datasets
  THEN notFound("createPipeline", sourceId)
  ELSE /\ lastCall' = [op |-> "createPipeline", key |-> sourceId, out |-> "ok",
                       ref |-> datasets[sourceId]]
       /\ UNCHANGED <<heap, datasets, metadata, hasStorage, stored, calls, now, budget>>

CreatePipeline == \E key \in LookupKeys : createPipeline(key) /\ UNCHANGED <<pipeVars, perfVars, utilVars, copyVars>>

\* (a variant that sets the map only once the save has returned)
datasetsSetAfterAwait(c) ==
  IF c.op = "update" THEN MapSet(datasets, c.id, c.ref) ELSE datasets

\* what the code after an awaited storage call does to the dataset map: nothing
datasetsAfterAwait(c) == datasets

\* (a variant of the collaborator whose delete removes nothing)
storedKeptOnDelete(c) ==
  IF c.req = "save" THEN MapSet(stored, c.id, c.ref) ELSE stored

\* the collaborator's content after it has applied a request: put or delete by id
storedAfterRequest(c) ==
  IF c.req = "save" THEN MapSet(stored, c.id, c.ref) ELSE MapDelete(stored, c.id)

\* the storage collaborator completes the request of call i and the suspended operation
\* resumes
resolved(i) ==
  /\ Pending(i)
  /\ calls' = [calls EXCEPT ![i].st = "ok"]
  /\ stored' = storedAfterRequest(calls[i])
  /\ datasets' = datasetsAfterAwait(calls[i])
  /\ UNCHANGED <<heap, metadata, hasStorage, now, budget, lastCall>>
  /\ UNCHANGED <<pipeVars, perfVars, utilVars, copyVars>>

StorageResolve == \E i \in 1..Len(calls) : resolved(i)

\* the same, by a collaborator that applies the requests in the order they were issued
StorageResolveInOrder ==
  \E i \in 1..Len(calls) : (\A j \in 1..(i - 1) : ~Pending(j)) /\ resolved(i)

\* the storage collaborator rejects a request and the suspended operation fails
StorageReject ==
  \E i \in 1..Len(calls) :
    /\ Pending(i)
    /\ calls' = [calls EXCEPT ![i].st = "failed"]
    /\ datasets' = datasetsAfterAwait(calls[i])
    /\ UNCHANGED <<heap, metadata, hasStorage, stored, now, budget, lastCall>>
    /\ UNCHANGED <<pipeVars, perfVars, utilVars, copyVars>>

Tick ==
  /\ now < 1 + MaxTicks
  /\ now' = now + 1
  /\ UNCHANGED <<heap, datasets, metadata, hasStorage, stored, calls, budget, lastCall>>
  /\ UNCHANGED <<pipeVars, perfVars, utilVars, copyVars>>

InitLake ==
  /\ heap = <<>>
  /\ datasets = NoRec
  /\ metadata = NoRec
  /\ hasStorage \in BOOLEAN
  /\ stored = NoRec
  /\ calls = <<>>
  /\ now = 1
  /\ lastCall = [op |-> "none", key |-> "", out |-> "ok", ref |-> 0]

InitNoPipeline ==
  /\ source = NoRec
  /\ steps = <<>>
  /\ result = NoRec
  /\ resultNo = 0
  /\ lastRun = [op |-> "none", out |-> "ok", rows |-> <<>>, n |-> 0, ran |-> 0, arg |-> 0]
  /\ produced = <<>>

InitNoUtil ==
  /\ validator = NoRec
  /\ report = NoRec
  /\ sampling = NoRec
  /\ sampled = NoRec
  /\ scroll = NoRec
  /\ range = NoRec

InitNoCopy ==
  /\ serialized = NoRec
  /\ revived = NoRec

\* no PageLoader in use
InitNoLoader ==
  /\ cache = NoRec
  /\ loadedPages = {}
  /\ loadingPages = {}
  /\ loads = <<>>

\* no StreamProcessor in use, and no validator, sampler, scroller or serialized copy
InitNoStream ==
  /\ processor = NoRec
  /\ run = NoRec
  /\ events = <<>>
  /\ InitNoUtil
  /\ InitNoCopy

(***************************************************************************)
(* The registry under create, update, delete, clone and merge, with the    *)
(* storage collaborator completing the requests in any order.              *)
(***************************************************************************)
Init == InitLake /\ budget = MaxCalls /\ InitNoPipeline /\ InitNoLoader /\ InitNoStream

Next ==
  \/ Create
  \/ Update
  \/ Delete
  \/ Clone
  \/ MergeDatasets
  \/ StorageResolve
  \/ Tick

Spec == Init /\ [][Next]_vars

(***************************************************************************)
(* The same registry, with the calls that look an id up: createPipeline,   *)
(* and update, clone and merge on an id the registry does not hold.        *)
(***************************************************************************)
InitLookup ==
  InitLake /\ budget = MaxLookupCalls /\ InitNoPipeline /\ InitNoLoader /\ InitNoStream

NextLookup ==
  \/ Next
  \/ UpdateAbsent
  \/ CloneAbsent
  \/ MergeAbsent
  \/ CreatePipeline

SpecLookup == InitLookup /\ [][NextLookup]_vars

(***************************************************************************)
(* The application's startup: a storage collaborator that holds the        *)
(* datasets of an earlier session is attached and what it holds is put     *)
(* back into the registry; the registry is then used as before.            *)
(***************************************************************************)
\* the datasets an earlier session saved
Persisted ==
  <<UnifiedData([id |-> "old_1", name |-> "sales", type |-> "array",
                 schema |-> infer(RowsA), data |-> RowsA], "old_1", 1),
    UnifiedData([id |-> "old_2", name |-> "raw", type |-> "array",
                 schema |-> infer(RowsB), data |-> RowsB,
                 metadata |-> [source_file |-> "f.csv"]], "old_2", 1)>>

\* what the object store may hold at startup: id -> reference of the saved form
PersistedStores == {NoRec, [id \in {"old_1"} |-> 1], [id \in {"old_1", "old_2"} |-> IF id = "old_1" THEN 1 ELSE 2]}

\* UnifiedData.fromJSON(item)
fromJSON(json) == UnifiedData(json, "", now)

\* storage.loadAll(): the saved forms, deserialized, in key order
loadAll == [i \in 1..Cardinality(DOMAIN stored) |-> fromJSON(toJSON(heap[i]))]

\* for (const ds of datasets) this.lake.datasets.set(ds.id, ds)
RECURSIVE restored(_, _, _)
restored(map, items, base) ==
  IF items = <<>> THEN map
  ELSE restored(MapSet(map, items[1].id, base + 1), Tail(items), base + 1)

\* init(): the storage is attached, then loadAll() either returns the saved datasets,
\* which go into the dataset map, or fails, which init() only logs
AppInit ==
  /\ ~hasStorage
  /\ calls = <<>>
  /\ datasets = NoRec
  /\ hasStorage' = TRUE
  /\ \E loaded \in BOOLEAN :
       IF loaded
       THEN /\ heap' = heap \o loadAll
            /\ datasets' = restored(datasets, loadAll, Len(heap))
       ELSE UNCHANGED <<heap, datasets>>
  /\ UNCHANGED <<metadata, stored, calls, now, budget, lastCall>>
  /\ UNCHANGED <<pipeVars, perfVars, utilVars, copyVars>>

InitRestore ==
  /\ heap = Persisted
  /\ datasets = NoRec
  /\ metadata = NoRec
  /\ hasStorage = FALSE
  /\ stored \in PersistedStores
  /\ calls = <<>>
  /\ now = 1
  /\ budget = MaxRestoreCalls
  /\ lastCall = [op |-> "none", key |-> "", out |-> "ok", ref |-> 0]
  /\ InitNoPipeline
  /\ InitNoLoader
  /\ InitNoStream

NextRestore ==
  \/ AppInit
  \/ Next

SpecRestore == InitRestore /\ [][NextRestore]_vars

(***************************************************************************)
(* Pipeline.  A step is a tagged record holding the arguments of its chain *)
(* call; the user functions a caller passes are named, pure functions.     *)
(***************************************************************************)
Digit(d) == <<"0", "1", "2", "3", "4", "5", "6", "7", "8", "9">>[d + 1]

RECURSIVE IntStr(_)
IntStr(n) ==
  IF n < 0 THEN "-" \o IntStr(0 - n)
  ELSE IF n < 10 THEN Digit(n)
  ELSE IntStr(n \div 10) \o Digit(n % 10)

\* String(value)
String(value) ==
  CASE value.t = "int" -> IntStr(value.v)
    [] value.t = "str" -> value.v
    [] value.t = "null" -> "null"
    [] value.t = "bool" -> IF value.v THEN "true" ELSE "false"
    [] OTHER -> "undefined"

\* the piece Array.prototype.join makes of an element
JoinPiece(value) == IF value.t \in {"null", "undef"} THEN "" ELSE String(value)

\* predicates a caller passes to filter()
applyPredicate(p, row) ==
  CASE p = "aGt1" -> Get(row, "a").t = "int" /\ Get(row, "a").v > 1
    [] p = "bIsX" -> Get(row, "b") = StrV("x")

\* transforms a caller passes to map(): row => ({...row, c: 1}), row => ({a: row.a}),
\* row => { if (row.b === null) throw new Error('bad row'); return row; }
applyTransform(f, row) ==
  CASE f = "addC" -> SetKey(row, "c", IntV(1))
    [] f = "onlyA" -> Row1("a", Get(row, "a"))
    [] f = "failOnNull" -> row

\* the rows a transform throws on
transformRaises(f, row) == f = "failOnNull" /\ Get(row, "b") = NullV

\* aggregation functions a caller passes to aggregate(): Aggregators.COUNT,
\* rows => rows.reduce((s, r) => s + r.a, 0) over integer a, and Aggregators.SUM
RECURSIVE sumA(_)
sumA(rows) ==
  IF rows = <<>> THEN 0
  ELSE (IF Get(rows[1], "a").t = "int" THEN Get(rows[1], "a").v ELSE 0) + sumA(Tail(rows))

applyAggregation(fn, rows) ==
  CASE fn = "COUNT" -> IntV(Len(rows))
    [] fn = "sumA" -> IntV(sumA(rows))
    [] fn = "SUM" -> Undefined

\* Aggregators.SUM reads a variable rows that no scope declares: calling it throws
aggregationRaises(fn) == fn = "SUM"

Ok(rows) == [ok |-> TRUE, rows |-> rows, err |-> ""]
Raised(err) == [ok |-> FALSE, rows |-> <<>>, err |-> err]
TypeError == Raised("TypeError")

filterRows(data, p) == SelectSeq(data, LAMBDA row : applyPredicate(p, row))

mapRows(data, f) == [i \in 1..Len(data) |-> applyTransform(f, data[i])]

RECURSIVE pick(_, _)
pick(row, fields) ==
  IF fields = <<>> THEN <<>>
  ELSE (IF HasKey(row, fields[1]) /\ ~HasKey(pick(row, Tail(fields)), fields[1])
        THEN <<[k |-> fields[1], v |-> Get(row, fields[1])]>> ELSE <<>>)
       \o pick(row, Tail(fields))

selectRows(data, fields) == [i \in 1..Len(data) |-> pick(data[i], fields)]

RECURSIVE drop(_, _)
drop(row, fields) ==
  IF fields = <<>> THEN row ELSE drop(DelKey(row, fields[1]), Tail(fields))

excludeRows(data, fields) == [i \in 1..Len(data) |-> drop(data[i], fields)]

RECURSIVE renamed(_, _)
renamed(row, mapping) ==
  IF mapping = <<>> THEN row
  ELSE renamed(IF HasKey(row, mapping[1][1])
               THEN DelKey(SetKey(row, mapping[1][2], Get(row, mapping[1][1])), mapping[1][1])
               ELSE row,
               Tail(mapping))

renameRows(data, mapping) == [i \in 1..Len(data) |-> renamed(data[i], mapping)]

\* aVal < bVal on the values the model sorts by: integers, or a missing field
Less(x, y) == x.t = "int" /\ y.t = "int" /\ x.v < y.v

compare(a, b, field, direction) ==
  LET modifier == IF direction = "desc" THEN 0 - 1 ELSE 1
  IN IF Less(Get(a, field), Get(b, field)) THEN (0 - 1) * modifier
     ELSE IF Less(Get(b, field), Get(a, field)) THEN modifier
     ELSE 0

\* a stable sort: each row goes behind the last row that does not come after it
RECURSIVE sorted(_, _, _)
sorted(data, field, direction) ==
  IF data = <<>> THEN <<>>
  ELSE LET front == sorted(SubSeq(data, 1, Len(data) - 1), field, direction)
           x == data[Len(data)]
           keep == {i \in 1..Len(front) : compare(front[i], x, field, direction) <= 0}
           at == IF keep = {} THEN 0 ELSE CHOOSE i \in keep : \A j \in keep : j <= i
       IN SubSeq(front, 1, at) \o <<x>> \o SubSeq(front, at + 1, Len(front))

sortRows(data, field, direction) == sorted(data, field, direction)

\* JSON.parse(JSON.stringify(row)): a key holding undefined is dropped
jsonRow(row) == SelectSeq(row, LAMBDA e : e.v.t # "undef")

distinctRows(data, field) ==
  IF field # ""
  THEN LET first(i) == \A j \in 1..(i - 1) : String(Get(data[j], field)) # String(Get(data[i], field))
           idx == {i \in 1..Len(data) : first(i)}
           F[i \in 0..Len(data)] ==
             IF i = 0 THEN <<>> ELSE IF i \in idx THEN Append(F[i - 1], data[i]) ELSE F[i - 1]
       IN F[Len(data)]
  ELSE LET first(i) == \A j \in 1..(i - 1) : jsonRow(data[j]) # jsonRow(data[i])
           idx == {i \in 1..Len(data) : first(i)}
           F[i \in 0..Len(data)] ==
             IF i = 0 THEN <<>>
             ELSE IF i \in idx THEN Append(F[i - 1], jsonRow(data[i])) ELSE F[i - 1]
       IN F[Len(data)]

Min(a, b) == IF a < b THEN a ELSE b

limitRows(data, count, offset) == SubSeq(data, offset + 1, Min(offset + count, Len(data)))

RECURSIVE joinKey(_, _)
joinKey(row, groupBy) ==
  IF groupBy = <<>> THEN ""
  ELSE IF Len(groupBy) = 1 THEN JoinPiece(Get(row, groupBy[1]))
  ELSE JoinPiece(Get(row, groupBy[1])) \o "|||" \o joinKey(row, Tail(groupBy))

aggregated(aggregations, rows) ==
  [i \in 1..Len(aggregations) |->
     [k |-> aggregations[i].name, v |-> applyAggregation(aggregations[i].fn, rows)]]

RECURSIVE setAll(_, _)
setAll(row, entries) ==
  IF entries = <<>> THEN row
  ELSE setAll(SetKey(row, entries[1].k, entries[1].v), Tail(entries))

\* the grouped row: the groupBy fields take the pieces of the split key, as strings
groupedRow(groupBy, aggregations, rows) ==
  setAll(setAll(<<>>, [i \in 1..Len(groupBy) |->
                         [k |-> groupBy[i], v |-> StrV(JoinPiece(Get(rows[1], groupBy[i])))]]),
         aggregated(aggregations, rows))

aggregateRows(data, aggregations, groupBy) ==
  IF groupBy.given
  THEN LET key(i) == joinKey(data[i], groupBy.fields)
           first(i) == \A j \in 1..(i - 1) : key(j) # key(i)
           group(i) == SelectSeq(data, LAMBDA row : joinKey(row, groupBy.fields) = key(i))
           F[i \in 0..Len(data)] ==
             IF i = 0 THEN <<>>
             ELSE IF first(i)
                  THEN Append(F[i - 1], groupedRow(groupBy.fields, aggregations, group(i)))
                  ELSE F[i - 1]
       IN F[Len(data)]
  ELSE <<setAll(<<>>, aggregated(aggregations, data))>>

\* (a variant whose sort orders the array it was handed)
inputSortedInPlace(step, data) ==
  IF step.type = "sort" THEN sortRows(data, step.field, step.direction) ELSE data

\* what a step leaves of the array it was handed: every built-in step builds a new
\* array of new or untouched rows
inputAfter(step, data) == data

\* a step with the arguments of its own chain call
applyStep(step, data) ==
  CASE step.type = "filter" -> filterRows(data, step.predicate)
    [] step.type = "map" -> mapRows(data, step.transform)
    [] step.type = "select" -> selectRows(data, step.fields)
    [] step.type = "exclude" -> excludeRows(data, step.fields)
    [] step.type = "rename" -> renameRows(data, step.mapping)
    [] step.type = "sort" -> sortRows(data, step.field, step.direction)
    [] step.type = "distinct" -> distinctRows(data, step.field)
    [] step.type = "limit" -> limitRows(data, step.count, step.offset)
    [] step.type = "aggregate" -> aggregateRows(data, step.aggregations, step.groupBy)

\* steps[i].execute(data): filter and map read their function from the step that is
\* last in the list when they run; a missing function is a TypeError
stepExecute(stps, i, data) ==
  LET last == stps[Len(stps)]
  IN CASE stps[i].type = "filter" ->
            IF "predicate" \in DOMAIN last
            THEN Ok(filterRows(data, last.predicate)) ELSE TypeError
       [] stps[i].type = "map" ->
            IF "transform" \notin DOMAIN last THEN TypeError
            ELSE IF \E r \in 1..Len(data) : transformRaises(last.transform, data[r])
                 THEN Raised("Error")
                 ELSE Ok(mapRows(data, last.transform))
       [] stps[i].type = "aggregate" ->
            IF /\ \E a \in 1..Len(stps[i].aggregations) :
                    aggregationRaises(stps[i].aggregations[a].fn)
               /\ (stps[i].groupBy.given => data # <<>>)
            THEN Raised("ReferenceError")
            ELSE Ok(applyStep(stps[i], data))
       [] OTHER -> Ok(applyStep(stps[i], data))

\* (a variant of the loop that goes on with the rows it had when a step throws)
RECURSIVE runStepsPastErrors(_, _, _)
runStepsPastErrors(stps, i, data) ==
  IF i > Len(stps) THEN Ok(data)
  ELSE LET r == stepExecute(stps, i, data)
       IN runStepsPastErrors(stps, i + 1, IF r.ok THEN r.rows ELSE data)

\* the loop over the steps, from step i on
RECURSIVE runSteps(_, _, _)
runSteps(stps, i, data) ==
  IF i > Len(stps) THEN Ok(data)
  ELSE LET r == stepExecute(stps, i, data)
       IN IF r.ok THEN runSteps(stps, i + 1, r.rows) ELSE r

\* the source's rows once the steps have run: the first step is handed the source's
\* own array
sourceDataAfter(stps, data) == IF stps = <<>> THEN data ELSE inputAfter(stps[1], data)

\* the source's schema once execute() has built the result's: a copy receives the
\* re-inferred columns
sourceSchemaAfter(schema, data) == schema

ResultIds == <<"result_1", "result_2", "result_3", "result_4", "result_5">>

generateResultId == ResultIds[resultNo + 1]

StepInputs ==
  {[type |-> "filter", predicate |-> "aGt1"],
   [type |-> "filter", predicate |-> "bIsX"],
   [type |-> "map", transform |-> "addC"],
   [type |-> "map", transform |-> "onlyA"],
   [type |-> "map", transform |-> "failOnNull"],
   [type |-> "select", fields |-> <<"b", "a">>],
   [type |-> "exclude", fields |-> <<"b">>],
   [type |-> "rename", mapping |-> << <<"a", "n">> >>],
   [type |-> "sort", field |-> "a", direction |-> "desc"],
   [type |-> "sort", field |-> "a", direction |-> "asc"],
   [type |-> "distinct", field |-> ""],
   [type |-> "distinct", field |-> "b"],
   [type |-> "limit", count |-> 1, offset |-> 1],
   [type |-> "aggregate", aggregations |-> <<[name |-> "n", fn |-> "COUNT"]>>,
    groupBy |-> [given |-> FALSE, fields |-> <<>>]],
   [type |-> "aggregate", aggregations |-> <<[name |-> "total", fn |-> "sumA"]>>,
    groupBy |-> [given |-> TRUE, fields |-> <<"b">>]],
   [type |-> "aggregate", aggregations |-> <<[name |-> "n", fn |-> "COUNT"]>>,
    groupBy |-> [given |-> TRUE, fields |-> <<"a">>]],
   [type |-> "aggregate", aggregations |-> <<[name |-> "total", fn |-> "SUM"]>>,
    groupBy |-> [given |-> TRUE, fields |-> <<"b">>]]}

OfType(type) == {st \in StepInputs : st.type = type}

\* (lastRun is what the latest call on the pipeline returned: a chain call returns
\* the pipeline, not a run's outcome)
push(step) ==
  /\ Len(steps) < MaxSteps
  /\ source # NoRec
  /\ steps' = Append(steps, step)
  /\ lastRun' = [op |-> "none", out |-> "ok", rows |-> <<>>, n |-> 0, ran |-> 0, arg |-> 0]
  /\ UNCHANGED <<source, result, resultNo, produced>>
  /\ UNCHANGED <<lakeVars, perfVars, utilVars, copyVars>>

Filter == \E st \in OfType("filter") : push(st)
Map == \E st \in OfType("map") : push(st)
Select == \E st \in OfType("select") : push(st)
Exclude == \E st \in OfType("exclude") : push(st)
Rename == \E st \in OfType("rename") : push(st)
Sort == \E st \in OfType("sort") : push(st)
Distinct == \E st \in OfType("distinct") : push(st)
Limit == \E st \in OfType("limit") : push(st)
Aggregate == \E st \in OfType("aggregate") : push(st)

\* how many steps had their execute called: every step up to the first that throws
RECURSIVE stepsRun(_, _, _)
stepsRun(stps, i, data) ==
  IF i > Len(stps) THEN 0
  ELSE LET r == stepExecute(stps, i, data)
       IN IF r.ok THEN 1 + stepsRun(stps, i + 1, r.rows) ELSE 1

\* a result of a pipeline without steps holds the source's own array as its data
sharesSourceArray(obj) == obj.metadata.steps_count = 0

\* the results handed out earlier, once the steps have run over the source's array
heldResults(stps) ==
  [i \in 1..Len(produced) |->
     IF sharesSourceArray(produced[i])
     THEN [produced[i] EXCEPT !.data = sourceDataAfter(stps, source.data)]
     ELSE produced[i]]

\* (a variant of execute() that refills the dataset it returned before)
resultOverwritten(held, obj) ==
  IF held = <<>> THEN <<obj>> ELSE [held EXCEPT ![Len(held)] = obj]

\* this.result = new UnifiedData(...): a new object each time
resultsAfterExecute(held, obj) == Append(held, obj)

Execute ==
  /\ resultNo < MaxRuns
  /\ IF source = NoRec
     THEN /\ lastRun' = [op |-> "execute", out |-> "NoSource", rows |-> <<>>,
                         n |-> Len(steps), ran |-> 0, arg |-> 0]
          /\ UNCHANGED <<source, result, resultNo, produced>>
     ELSE LET r == runSteps(steps, 1, source.data)
              ran == stepsRun(steps, 1, source.data)
              held == heldResults(steps)
              obj == UnifiedData([id |-> generateResultId,
                                  name |-> source.name \o " (transformed)",
                                  type |-> "transformed",
                                  schema |-> Merge(source.schema,
                                                   [columns |-> infer(r.rows).columns]),
                                  data |-> r.rows,
                                  metadata |-> [source_id |-> source.id,
                                                steps_count |-> Len(steps),
                                                transformed_at |-> now]],
                                 generateResultId, now)
          IN /\ source' = [source EXCEPT
                             !.data = sourceDataAfter(steps, @),
                             !.schema = IF r.ok THEN sourceSchemaAfter(@, r.rows) ELSE @]
             /\ IF r.ok
                THEN /\ produced' = resultsAfterExecute(held, obj)
                     /\ result' = obj
                     /\ resultNo' = resultNo + 1
                     /\ lastRun' = [op |-> "execute", out |-> "ok", rows |-> r.rows,
                                    n |-> Len(steps), ran |-> ran, arg |-> 0]
                ELSE /\ produced' = held
                     /\ result' = IF held = <<>> THEN NoRec ELSE held[Len(held)]
                     /\ lastRun' = [op |-> "execute", out |-> r.err, rows |-> <<>>,
                                    n |-> Len(steps), ran |-> ran, arg |-> 0]
                     /\ UNCHANGED resultNo
  /\ UNCHANGED steps
  /\ UNCHANGED <<lakeVars, perfVars, utilVars, copyVars>>

\* this.source.toArray().slice(0, maxRows), for maxRows >= 0
previewSlice(data, maxRows) == SubSeq(data, 1, Min(maxRows, Len(data)))

\* (a variant of preview() that keeps its sample as the pipeline's source)
sourceCutByPreview(maxRows) == [source EXCEPT !.data = previewSlice(@, maxRows)]

\* what preview() does to the source: slice() copies, the source keeps its rows
sourceAfterPreview(maxRows) == source

Preview ==
  \E maxRows \in {1, 10} :
    /\ IF source = NoRec
       THEN /\ lastRun' = [op |-> "preview", out |-> "NoSource", rows |-> <<>>,
                           n |-> Len(steps), ran |-> 0, arg |-> maxRows]
            /\ UNCHANGED source
       ELSE LET sample == previewSlice(source.data, maxRows)
                r == runSteps(steps, 1, sample)
            IN /\ lastRun' = [op |-> "preview", out |-> IF r.ok THEN "ok" ELSE r.err,
                              rows |-> r.rows, n |-> Len(steps),
                              ran |-> stepsRun(steps, 1, sample), arg |-> maxRows]
               /\ source' = sourceAfterPreview(maxRows)
    /\ UNCHANGED <<steps, result, resultNo, produced>>
    /\ UNCHANGED <<lakeVars, perfVars, utilVars, copyVars>>

\* Pipeline.from(rows, name)
from(rows, name) ==
  UnifiedData([name |-> name, schema |-> infer(rows), data |-> rows], "src_1", 1)

SourceRows ==
  {<<Row2("a", IntV(2), "b", StrV("x")), Row2("a", IntV(1), "b", StrV("y")),
     Row2("a", IntV(2), "b", StrV("x"))>>,
   <<Row2("a", IntV(1), "b", StrV("x")), Row2("a", IntV(3), "b", NullV)>>,
   <<>>}

InitNoLake ==
  /\ heap = <<>>
  /\ datasets = NoRec
  /\ metadata = NoRec
  /\ hasStorage = FALSE
  /\ stored = NoRec
  /\ calls = <<>>
  /\ now = 1
  /\ budget = 0
  /\ lastCall = [op |-> "none", key |-> "", out |-> "ok", ref |-> 0]

InitPipe ==
  /\ InitNoLake
  /\ source \in {from(rows, "Pipeline Output") : rows \in SourceRows}
  /\ steps = <<>>
  /\ result = NoRec
  /\ resultNo = 0
  /\ lastRun = [op |-> "none", out |-> "ok", rows |-> <<>>, n |-> 0, ran |-> 0, arg |-> 0]
  /\ produced = <<>>
  /\ InitNoLoader
  /\ InitNoStream

NextPipe ==
  \/ Filter
  \/ Map
  \/ Select
  \/ Exclude
  \/ Rename
  \/ Sort
  \/ Distinct
  \/ Limit
  \/ Aggregate
  \/ Execute
  \/ Preview

SpecPipe == InitPipe /\ [][NextPipe]_vars

(***************************************************************************)
(* PageLoader.  A loadPage() invocation is a record with its position:     *)
(* "fetching" while its dataLoader call is unresolved, "waiting" while it   *)
(* polls for another invocation's fetch, then "returned" or "failed".      *)
(***************************************************************************)
Pages == 0..3

\* what the dataLoader answers to the fetch that invocation i issued for page p
pageData(p, i) == <<p, i>>

NotReturned == [k |-> "none", data |-> <<>>]
ReturnedUndefined == [k |-> "undefined", data |-> <<>>]
ReturnedEntry(e) == [k |-> "entry", data |-> e.data]
ReturnedData(d) == [k |-> "data", data |-> d]

\* loadPage(pageIndex) up to its return or its first await
loadPageCall(p, via) ==
  IF p \in loadedPages
  THEN [page |-> p, via |-> via, pc |-> "returned",
        ret |-> IF p \in DOMAIN cache THEN ReturnedEntry(cache[p]) ELSE ReturnedUndefined]
  ELSE IF p \in loadingPages
  THEN [page |-> p, via |-> via, pc |-> "waiting", ret |-> NotReturned]
  ELSE [page |-> p, via |-> via, pc |-> "fetching", ret |-> NotReturned]

\* (a variant that does not mark the page as loading)
loadingNotMarked(p) == loadingPages

\* this.loadingPages.add(pageIndex), reached when the page is neither loaded nor loading
loadingAfterCall(p) ==
  IF p \in loadedPages \/ p \in loadingPages THEN loadingPages ELSE loadingPages \cup {p}

loadPage(p) ==
  /\ Len(loads) < MaxLoads
  /\ loads' = Append(loads, loadPageCall(p, "direct"))
  /\ loadingPages' = loadingAfterCall(p)
  /\ UNCHANGED <<cache, loadedPages>>

LoadPage == \E p \in Pages : loadPage(p) /\ UNCHANGED <<lakeVars, pipeVars, streamVars, utilVars, copyVars>>

\* prefetch(pageIndex): loadPage of each neighbour that is not negative, unawaited
prefetch(p) ==
  LET prev == IF p - 1 >= 0 THEN <<p - 1>> ELSE <<>>
      around == prev \o <<p + 1>>
  IN /\ Len(loads) + Len(around) <= MaxLoads
     /\ loads' = loads \o [i \in 1..Len(around) |-> loadPageCall(around[i], "prefetch")]
     /\ loadingPages' = UNION {loadingAfterCall(around[i]) : i \in 1..Len(around)}
     /\ UNCHANGED <<cache, loadedPages>>

Prefetch ==
  \E p \in Pages : p + 1 \in Pages /\ prefetch(p) /\ UNCHANGED <<lakeVars, pipeVars, streamVars, utilVars, copyVars>>

\* the window cleanupCache(currentPage) keeps
pagesToKeep(currentPage) == {currentPage - 1, currentPage, currentPage + 1}

\* (a variant of cleanupCache that evicts nothing)
cacheKept(c, currentPage) == c

\* cleanupCache(currentPage), on the cache
cleanupCache(c, currentPage) == [q \in DOMAIN c \cap pagesToKeep(currentPage) |-> c[q]]

\* cleanupCache(currentPage), on loadedPages: a page leaves with its cache entry
cleanupLoaded(loaded, c, currentPage) == loaded \ (DOMAIN c \ DOMAIN cleanupCache(c, currentPage))

\* the dataLoader resolves: the page is stored, the cache is cleaned, the marker removed
FetchResolve ==
  \E i \in 1..Len(loads) :
    LET p == loads[i].page
        set == MapSet(cache, p, [data |-> pageData(p, i), timestamp |-> now, pageIndex |-> p])
    IN /\ loads[i].pc = "fetching"
       /\ cache' = cleanupCache(set, p)
       /\ loadedPages' = cleanupLoaded(loadedPages \cup {p}, set, p)
       /\ loadingPages' = loadingPages \ {p}
       /\ loads' = [loads EXCEPT ![i].pc = "returned", ![i].ret = ReturnedData(pageData(p, i))]
       /\ UNCHANGED <<lakeVars, pipeVars, streamVars, utilVars, copyVars>>

\* the dataLoader rejects: the marker is removed and loadPage() fails
FetchReject ==
  \E i \in 1..Len(loads) :
    /\ loads[i].pc = "fetching"
    /\ loadingPages' = loadingPages \ {loads[i].page}
    /\ loads' = [loads EXCEPT ![i].pc = "failed"]
    /\ UNCHANGED <<cache, loadedPages>>
    /\ UNCHANGED <<lakeVars, pipeVars, streamVars, utilVars, copyVars>>

\* a waiting invocation wakes from sleep(50) and finds the page no longer loading
Wake ==
  \E i \in 1..Len(loads) :
    /\ loads[i].pc = "waiting"
    /\ loads[i].page \notin loadingPages
    /\ loads' = [loads EXCEPT
                   ![i].pc = "returned",
                   ![i].ret = IF loads[i].page \in DOMAIN cache
                              THEN ReturnedEntry(cache[loads[i].page]) ELSE ReturnedUndefined]
    /\ UNCHANGED <<cache, loadedPages, loadingPages>>
    /\ UNCHANGED <<lakeVars, pipeVars, streamVars, utilVars, copyVars>>

InitLoader ==
  /\ InitNoLake
  /\ InitNoPipeline
  /\ cache = NoRec
  /\ loadedPages = {}
  /\ loadingPages = {}
  /\ loads = <<>>
  /\ InitNoStream

NextLoader ==
  \/ LoadPage
  \/ Prefetch
  \/ FetchResolve
  \/ FetchReject
  \/ Wake

SpecLoader == InitLoader /\ [][NextLoader]_vars

(***************************************************************************)
(* StreamProcessor.  The callbacks a caller supplies are named; events is  *)
(* the log of the callbacks process() has made and of its setTimeout       *)
(* yields.                                                                 *)
(***************************************************************************)
DefaultChunkSize == 1000

\* new StreamProcessor(options): chunkSize 0 stands for an option left out; onChunk
\* returns its chunk ("echo"), its chunk's length ("count") or nothing ("none") and
\* throws when called for the failAt-th time (0: never)
ProcessorOptions ==
  [chunkSize : {0, 1, 2}, onChunk : {"echo", "count", "none"},
   failAt : {0, 1, 2}, hasOnError : BOOLEAN]

StreamProcessor(options) ==
  [chunkSize |-> IF options.chunkSize = 0 THEN DefaultChunkSize ELSE options.chunkSize,
   onChunk |-> options.onChunk, failAt |-> options.failAt,
   hasOnError |-> options.hasOnError]

Idle ==
  [pc |-> "idle", data |-> <<>>, yield |-> TRUE, onProgress |-> FALSE, total |-> 0,
   i |-> 0, processed |-> 0, results |-> <<>>, chunks |-> 0]

Event(e, rows, at, total, percent) ==
  [e |-> e, rows |-> rows, at |-> at, total |-> total, percent |-> percent]

\* (a variant whose slice stops one row early)
sliceWithoutLast(data, i) ==
  SubSeq(data, i + 1, Min(i + processor.chunkSize - 1, Len(data)))

\* data.slice(i, i + this.chunkSize)
slice(data, i) == SubSeq(data, i + 1, Min(i + processor.chunkSize, Len(data)))

\* what onChunk's return value adds to results
pushed(chunk) ==
  CASE processor.onChunk = "echo" -> chunk
    [] processor.onChunk = "count" -> <<Len(chunk)>>
    [] processor.onChunk = "none" -> <<>>

\* Math.round(processed / total * 100)
percent(processed, total) == (200 * processed + total) \div (2 * total)

\* process(data, options) is called
Process ==
  \E n \in 0..MaxData, yield \in BOOLEAN, onProgress \in BOOLEAN :
    /\ run.pc = "idle"
    /\ run' = [Idle EXCEPT !.pc = "loop", !.data = [k \in 1..n |-> k], !.total = n,
                           !.yield = yield, !.onProgress = onProgress]
    /\ UNCHANGED <<processor, events>>
    /\ UNCHANGED <<lakeVars, pipeVars, loaderVars, utilVars, copyVars>>

\* the loop calls onChunk with the next slice; a throw leaves process() at once:
\* nothing in process() catches it and nothing calls this.onError
CallChunk ==
  /\ run.pc = "loop"
  /\ run.i < run.total
  /\ events' = Append(events, Event("chunk", slice(run.data, run.i), run.i, run.total, 0))
  /\ run' = [run EXCEPT !.chunks = @ + 1,
                        !.pc = IF run.chunks + 1 = processor.failAt THEN "failed" ELSE "inChunk"]
  /\ UNCHANGED processor
  /\ UNCHANGED <<lakeVars, pipeVars, loaderVars, utilVars, copyVars>>

\* onChunk has returned: results and processed grow, progress is reported, and the loop
\* yields through setTimeout unless options.yield is false
ChunkDone ==
  LET chunk == slice(run.data, run.i)
      processed == run.processed + Len(chunk)
      progress == IF run.onProgress
                  THEN <<Event("progress", <<>>, processed, run.total,
                               percent(processed, run.total))>>
                  ELSE <<>>
      yielded == IF run.yield THEN <<Event("yield", <<>>, 0, 0, 0)>> ELSE <<>>
  IN /\ run.pc = "inChunk"
     /\ run' = [run EXCEPT !.results = @ \o pushed(chunk),
                           !.processed = processed,
                           !.i = @ + processor.chunkSize,
                           !.pc = IF run.yield THEN "yielding" ELSE "loop"]
     /\ events' = events \o progress \o yielded
     /\ UNCHANGED processor
     /\ UNCHANGED <<lakeVars, pipeVars, loaderVars, utilVars, copyVars>>

\* the setTimeout of yield() fires
Resume ==
  /\ run.pc = "yielding"
  /\ run' = [run EXCEPT !.pc = "loop"]
  /\ UNCHANGED <<processor, events>>
  /\ UNCHANGED <<lakeVars, pipeVars, loaderVars, utilVars, copyVars>>

\* the loop is over: onComplete(results), then process() returns results
Complete ==
  /\ run.pc = "loop"
  /\ run.i >= run.total
  /\ events' = Append(events, Event("complete", run.results, 0, 0, 0))
  /\ run' = [run EXCEPT !.pc = "done"]
  /\ UNCHANGED processor
  /\ UNCHANGED <<lakeVars, pipeVars, loaderVars, utilVars, copyVars>>

InitStream ==
  /\ InitNoLake
  /\ InitNoPipeline
  /\ InitNoLoader
  /\ processor \in {StreamProcessor(o) : o \in ProcessorOptions}
  /\ run = Idle
  /\ events = <<>>
  /\ InitNoUtil
  /\ InitNoCopy

NextStream ==
  \/ Process
  \/ CallChunk
  \/ ChunkDone
  \/ Resume
  \/ Complete

SpecStream == InitStream /\ [][NextStream]_vars

(***************************************************************************)
(* SchemaValidator: validate() checks each cell of each row against the    *)
(* schema's columns, in row order and, within a row, in column order.      *)
(***************************************************************************)
MaxRows == 2

SchemaValidator(schema) == [schema |-> schema, data |-> <<>>]

\* (a variant that accepts a declared type only)
isCompatibleExact(actual, expected) == actual = expected

isCompatible(actual, expected) ==
  \/ actual = expected
  \/ expected = "mixed"
  \/ actual = "null" /\ expected # "string"

\* the error, if any, pushed for the cell of row i under column col
cellErrors(i, col, value) ==
  IF col.nullable = FALSE /\ value.t \in {"null", "undef"}
  THEN <<[row |-> i, column |-> col.name, error |-> "required value is null"]>>
  ELSE IF value.t \notin {"null", "undef"} /\ ~isCompatible(inferType(value), col.type)
       THEN <<[row |-> i, column |-> col.name,
               error |-> "type mismatch: expected " \o col.type \o ", got " \o inferType(value)]>>
       ELSE <<>>

RECURSIVE rowErrors(_, _, _, _)
rowErrors(i, row, columns, c) ==
  IF c > Len(columns)
  THEN <<>>
  ELSE cellErrors(i, columns[c], Get(row, columns[c].name)) \o rowErrors(i, row, columns, c + 1)

RECURSIVE allErrors(_, _, _)
allErrors(data, columns, r) ==
  IF r > Len(data)
  THEN <<>>
  ELSE rowErrors(r - 1, data[r], columns, 1) \o allErrors(data, columns, r + 1)

\* errorRate is errors.length / data.length, kept as the two numbers divided
validate(schema, data) ==
  LET errors == allErrors(data, schema.columns, 1)
  IN [valid |-> Len(errors) = 0,
      errors |-> errors,
      totalRows |-> Len(data),
      errorRate |-> [dividend |-> Len(errors), divisor |-> Len(data)]]

ColumnsOf(name) ==
  [name : {name}, type : {"integer", "string", "mixed"}, nullable : BOOLEAN]

Schemas ==
  {[columns |-> <<>>]}
    \cup {[columns |-> <<a>>] : a \in ColumnsOf("a")}
    \cup {[columns |-> <<a, b>>] : a \in ColumnsOf("a"), b \in ColumnsOf("b")}

ValidatedRow ==
  {<<>>,
   Row2("a", IntV(1), "b", StrV("x")),
   Row2("a", NullV, "b", StrV("y")),
   Row1("a", StrV("x"))}

ValidatedData == UNION {[1..n -> ValidatedRow] : n \in 0..MaxRows}

Validate ==
  /\ validator # NoRec
  /\ \E data \in ValidatedData :
       /\ validator' = [validator EXCEPT !.data = data]
       /\ report' = validate(validator.schema, data)
  /\ UNCHANGED <<lakeVars, pipeVars, perfVars, copyVars, sampling, sampled, scroll, range>>

InitValidate ==
  /\ InitNoLake
  /\ InitNoPipeline
  /\ InitNoLoader
  /\ processor = NoRec /\ run = NoRec /\ events = <<>>
  /\ InitNoCopy
  /\ validator \in {SchemaValidator(schema) : schema \in Schemas}
  /\ report = NoRec
  /\ sampling = NoRec /\ sampled = NoRec /\ scroll = NoRec /\ range = NoRec

NextValidate == Validate

SpecValidate == InitValidate /\ [][NextValidate]_vars

(***************************************************************************)
(* Sampler.  The rows a sampler returns are the input's own row objects:   *)
(* a sample is kept as the sequence of the input indexes (from 1) of the   *)
(* rows it holds.                                                          *)
(***************************************************************************)
MaxSampleRows == 4
MaxSampleSize == 3

\* value || 'unknown'
orUnknown(value) ==
  IF \/ value.t \in {"null", "undef"}
     \/ value = IntV(0)
     \/ value = StrV("")
     \/ value = BoolV(FALSE)
  THEN StrV("unknown")
  ELSE value

stratumKey(row, stratumField) == String(orUnknown(Get(row, stratumField)))

\* index = Math.floor(i * step) with step = data.length / sampleSize
systematicSample(rows, sampleSize) ==
  IF Len(rows) <= sampleSize
  THEN rows
  ELSE [i \in 1..sampleSize |-> rows[((i - 1) * Len(rows)) \div sampleSize + 1]]

\* the keys of the strata Map, in insertion order
RECURSIVE strataKeys(_, _, _)
strataKeys(data, stratumField, r) ==
  IF r > Len(data)
  THEN <<>>
  ELSE LET key == stratumKey(data[r], stratumField)
       IN IF \E q \in 1..(r - 1) : stratumKey(data[q], stratumField) = key
          THEN strataKeys(data, stratumField, r + 1)
          ELSE <<key>> \o strataKeys(data, stratumField, r + 1)

\* strata.get(key): the rows under one key, in input order
stratum(data, stratumField, key) ==
  SelectSeq([r \in 1..Len(data) |-> r],
            LAMBDA r : stratumKey(data[r], stratumField) = key)

Max(a, b) == IF a > b THEN a ELSE b

RECURSIVE sampledStrata(_, _, _, _, _)
sampledStrata(data, stratumField, keys, samplePerStratum, s) ==
  IF s > Len(keys)
  THEN <<>>
  ELSE systematicSample(stratum(data, stratumField, keys[s]), samplePerStratum)
       \o sampledStrata(data, stratumField, keys, samplePerStratum, s + 1)

stratifiedSample(data, stratumField, sampleSize) ==
  IF Len(data) <= sampleSize
  THEN [r \in 1..Len(data) |-> r]
  ELSE LET keys == strataKeys(data, stratumField, 1)
           samplePerStratum == Max(1, sampleSize \div Len(keys))
           all == sampledStrata(data, stratumField, keys, samplePerStratum, 1)
       IN SubSeq(all, 1, Min(sampleSize, Len(all)))

StratumValues == {IntV(0), BoolV(FALSE), StrV(""), StrV("x")}

SampledData ==
  UNION {[1..n -> {Row1("g", v) : v \in StratumValues}] : n \in 0..MaxSampleRows}

StratifiedSample ==
  /\ sampling # NoRec
  /\ \E sampleSize \in 1..MaxSampleSize :
       /\ sampling' = [sampling EXCEPT !.fn = "stratifiedSample", !.sampleSize = sampleSize]
       /\ sampled' = stratifiedSample(sampling.data, "g", sampleSize)
  /\ UNCHANGED <<lakeVars, pipeVars, perfVars, copyVars, validator, report, scroll, range>>

SystematicSample ==
  /\ sampling # NoRec
  /\ \E sampleSize \in 1..MaxSampleSize :
       /\ sampling' = [sampling EXCEPT !.fn = "systematicSample", !.sampleSize = sampleSize]
       /\ sampled' = systematicSample([r \in 1..Len(sampling.data) |-> r], sampleSize)
  /\ UNCHANGED <<lakeVars, pipeVars, perfVars, copyVars, validator, report, scroll, range>>

InitSample ==
  /\ InitNoLake
  /\ InitNoPipeline
  /\ InitNoLoader
  /\ processor = NoRec /\ run = NoRec /\ events = <<>>
  /\ InitNoCopy
  /\ validator = NoRec /\ report = NoRec /\ scroll = NoRec /\ range = NoRec
  /\ sampling \in [data : SampledData, fn : {"none"}, sampleSize : {0}]
  /\ sampled = <<>>

NextSample ==
  \/ StratifiedSample
  \/ SystematicSample

SpecSample == InitSample /\ [][NextSample]_vars

(***************************************************************************)
(* The registry with a storage collaborator attached that may reject a     *)
(* request.                                                                *)
(***************************************************************************)
InitFailing ==
  /\ InitLake
  /\ hasStorage = TRUE
  /\ budget = MaxLookupCalls
  /\ InitNoPipeline
  /\ InitNoLoader
  /\ InitNoStream

NextFailing ==
  \/ Next
  \/ StorageReject

SpecFailing == InitFailing /\ [][NextFailing]_vars

(***************************************************************************)
(* The registry with a storage collaborator attached from the start that   *)
(* never fails and applies the requests in the order they were issued.     *)
(***************************************************************************)
InitOrdered ==
  /\ InitLake
  /\ hasStorage = TRUE
  /\ budget = MaxCalls
  /\ InitNoPipeline
  /\ InitNoLoader
  /\ InitNoStream

NextOrdered ==
  \/ Create
  \/ Update
  \/ Delete
  \/ Clone
  \/ MergeDatasets
  \/ StorageResolveInOrder
  \/ Tick

SpecOrdered == InitOrdered /\ [][NextOrdered]_vars

(***************************************************************************)
(* VirtualScroll.  Heights and scroll positions are whole pixels.          *)
(***************************************************************************)
MaxItems == 3
MaxScrollTop == 4

DefaultItemHeight == 40
DefaultContainerHeight == 400
DefaultBuffer == 5

\* new VirtualScroll(options): an option of 0 stands for one left out, or given as 0
ScrollOptions == [itemHeight : {0, 1, 2}, containerHeight : {0, 1, 3}, buffer : {0, 1}]

VirtualScroll(options) ==
  [itemHeight |-> IF options.itemHeight # 0 THEN options.itemHeight ELSE DefaultItemHeight,
   containerHeight |-> IF options.containerHeight # 0
                       THEN options.containerHeight ELSE DefaultContainerHeight,
   buffer |-> IF options.buffer # 0 THEN options.buffer ELSE DefaultBuffer,
   totalItems |-> 0,
   scrollTop |-> 0]

\* Math.ceil(a / b), b > 0
ceil(a, b) == (a + b - 1) \div b

getVisibleRange ==
  LET startIndex == scroll.scrollTop \div scroll.itemHeight
      visibleCount == ceil(scroll.containerHeight, scroll.itemHeight)
      renderStart == Max(0, startIndex - scroll.buffer)
      renderEnd == Min(scroll.totalItems, startIndex + visibleCount + scroll.buffer)
  IN [start |-> renderStart,
      end |-> renderEnd,
      offsetY |-> renderStart * scroll.itemHeight,
      totalHeight |-> scroll.totalItems * scroll.itemHeight]

renderPlaceholder ==
  LET r == getVisibleRange
      visibleItems == r.end - r.start
  IN [outerHeight |-> r.totalHeight,
      innerHTML |-> "",
      startIndex |-> r.start,
      visibleCount |-> visibleItems]

SetTotalItems ==
  /\ scroll # NoRec
  /\ \E count \in 0..MaxItems : scroll' = [scroll EXCEPT !.totalItems = count]
  /\ UNCHANGED <<lakeVars, pipeVars, perfVars, copyVars, validator, report, sampling, sampled, range>>

UpdateScrollTop ==
  /\ scroll # NoRec
  /\ \E scrollTop \in (0 - 2)..MaxScrollTop : scroll' = [scroll EXCEPT !.scrollTop = scrollTop]
  /\ UNCHANGED <<lakeVars, pipeVars, perfVars, copyVars, validator, report, sampling, sampled, range>>

GetVisibleRange ==
  /\ scroll # NoRec
  /\ range' = [op |-> "getVisibleRange", ret |-> getVisibleRange]
  /\ UNCHANGED <<lakeVars, pipeVars, perfVars, copyVars, validator, report, sampling, sampled, scroll>>

RenderPlaceholder ==
  /\ scroll # NoRec
  /\ range' = [op |-> "renderPlaceholder", ret |-> renderPlaceholder]
  /\ UNCHANGED <<lakeVars, pipeVars, perfVars, copyVars, validator, report, sampling, sampled, scroll>>

InitScroll ==
  /\ InitNoLake
  /\ InitNoPipeline
  /\ InitNoLoader
  /\ processor = NoRec /\ run = NoRec /\ events = <<>>
  /\ InitNoCopy
  /\ validator = NoRec /\ report = NoRec /\ sampling = NoRec /\ sampled = NoRec
  /\ scroll \in {VirtualScroll(options) : options \in ScrollOptions}
  /\ range = [op |-> "none", ret |-> NoRec]

NextScroll ==
  \/ SetTotalItems
  \/ UpdateScrollTop
  \/ GetVisibleRange
  \/ RenderPlaceholder

SpecScroll == InitScroll /\ [][NextScroll]_vars

(***************************************************************************)
(* The pipeline under rename() alone, with mappings that hold an identity  *)
(* entry, a swap, or a chain of two entries.  A mapping is the sequence of *)
(* its entries in Object.entries order.                                    *)
(***************************************************************************)
RenameMappings ==
  {<< <<"a", "n">> >>,
   << <<"a", "a">> >>,
   << <<"a", "b">>, <<"b", "a">> >>,
   << <<"a", "b">>, <<"b", "c">> >>,
   << <<"a", "x">>, <<"b", "y">> >>,
   << <<"c", "a">> >>}

RenamedRows ==
  {<<Row2("a", IntV(1), "b", StrV("x")), Row2("a", IntV(2), "b", NullV)>>,
   <<Row1("a", IntV(1)), Row2("b", StrV("y"), "a", IntV(3))>>}

RenameKeys ==
  \E mapping \in RenameMappings :
    push([type |-> "rename", mapping |-> mapping]) /\ UNCHANGED <<lakeVars, perfVars, utilVars, copyVars>>

InitRename ==
  /\ InitNoLake
  /\ source \in {from(rows, "Pipeline Output") : rows \in RenamedRows}
  /\ steps = <<>>
  /\ result = NoRec
  /\ resultNo = 0
  /\ lastRun = [op |-> "none", out |-> "ok", rows |-> <<>>, n |-> 0, ran |-> 0, arg |-> 0]
  /\ produced = <<>>
  /\ InitNoLoader
  /\ InitNoStream

NextRename ==
  \/ RenameKeys
  \/ Execute

SpecRename == InitRename /\ [][NextRename]_vars

(***************************************************************************)
(* The registry with serialize() and deserialize().  The array serialize() *)
(* builds is kept by id; the registry deserialize() builds is a record of  *)
(* its two maps, holding the dataset objects themselves.                   *)
(***************************************************************************)
LakeName == "Data Lake"

\* { id, ...data.toJSON(), metadata: this.metadata.get(id) }: a lifecycle record that is
\* missing leaves the metadata key undefined
serializedDataset(id) ==
  LET json == Merge([id |-> id], toJSON(heap[datasets[id]]))
  IN IF id \in DOMAIN metadata
     THEN Merge(json, [metadata |-> metadata[id]])
     ELSE [k \in DOMAIN json \ {"metadata"} |-> json[k]]

serialize ==
  [name |-> LakeName, datasets |-> [id \in DOMAIN datasets |-> serializedDataset(id)]]

deserialize(data) ==
  [name |-> data.name,
   datasets |-> [id \in DOMAIN data.datasets |-> fromJSON(data.datasets[id])],
   metadata |-> [id \in DOMAIN data.datasets |->
                   IF "metadata" \in DOMAIN data.datasets[id]
                   THEN data.datasets[id].metadata ELSE NoRec]]

\* the dataset a pipeline's execute() returned, handed to create() as its data
PipelineResult ==
  UnifiedData([id |-> "result_1", name |-> "sales (transformed)", type |-> "transformed",
               schema |-> infer(RowsA), data |-> RowsA,
               metadata |-> [source_id |-> "ds_1", steps_count |-> 1, transformed_at |-> 1]],
              "", 1)

\* create(name, data) with data instanceof UnifiedData: the object itself is registered
RegisterResult ==
  /\ CanCall
  /\ PipelineResult.id \notin DOMAIN datasets
  /\ register("create", PipelineResult, NoRec)
  /\ UNCHANGED <<hasStorage, stored, now, budget, lastCall>>
  /\ UNCHANGED <<pipeVars, perfVars, utilVars, copyVars>>

Serialize ==
  /\ serialized' = serialize
  /\ UNCHANGED <<lakeVars, pipeVars, perfVars, utilVars, revived>>

Deserialize ==
  /\ serialized # NoRec
  /\ revived' = deserialize(serialized)
  /\ UNCHANGED <<lakeVars, pipeVars, perfVars, utilVars, serialized>>

InitCopy ==
  /\ InitLake
  /\ budget = MaxLookupCalls
  /\ InitNoPipeline
  /\ InitNoLoader
  /\ InitNoStream

NextCopy ==
  \/ Next
  \/ RegisterResult
  \/ Serialize
  \/ Deserialize

SpecCopy == InitCopy /\ [][NextCopy]_vars

(***************************************************************************)
(* Properties of the registry.                                             *)
(***************************************************************************)
\* the step is an update() of a registered id: the id is re-pointed to a new object
UpdateStep(id) ==
  /\ id \in DOMAIN datasets
  /\ id \in DOMAIN datasets'
  /\ datasets'[id] # datasets[id]

Updates(id) == {i \in 1..Len(calls) : calls[i].op = "update" /\ calls[i].id = id}

LastUpdate(i) == calls[i].op = "update" /\ \A j \in Updates(calls[i].id) : j <= i

ListEntry(id) == CHOOSE e \in list : e.id = id

\* C1: at every suspension point the dataset map and the lifecycle map hold the same
\* ids, also while a storage save or delete is pending
C1_MapsHoldSameIds == DOMAIN datasets = DOMAIN metadata

\* C1 witness: a delete of a dataset that was updated is suspended on storage.delete
\* while other datasets are registered
C1_Witness ==
  \E i \in 1..Len(calls) :
    /\ calls[i].op = "delete"
    /\ Pending(i)
    /\ \E j \in 1..(i - 1) : calls[j].op \in {"create", "clone", "merge"} /\ calls[j].id = calls[i].id
    /\ DOMAIN datasets # {}

\* the version on record for id: the one update() writes, else the one create() wrote
recordedVersion(h, d, m, id) ==
  IF "version" \in DOMAIN h[d[id]].metadata THEN h[d[id]].metadata.version ELSE m[id].version

\* C2: every update(id, ...) raises the version recorded for id by exactly 1, starting
\* from the version 1 that create records
C2_UpdateBumpsVersion ==
  [][\A id \in DOMAIN datasets :
       UpdateStep(id) =>
         recordedVersion(heap', datasets', metadata', id)
           = recordedVersion(heap, datasets, metadata, id) + 1]_vars

optionsMetadata(options) == IF "metadata" \in DOMAIN options THEN options.metadata ELSE NoRec

\* C3 as amended: update(id, partial) leaves the held object as it was and re-points id
\* to a new object, keyed by id whatever partial.id says, whose type, schema, rows,
\* timestamp and version are partial's where partial gives them and the old ones
\* otherwise, whose name is likewise (an empty name becoming the default name), and whose
\* metadata is the old metadata with options.metadata, the bumped version and updatedAt
\* merged over it, whatever partial.metadata says
C3_UpdateCopiesOnWrite ==
  [][\A id \in DOMAIN datasets :
       UpdateStep(id) =>
         LET old == heap[datasets[id]]
             new == heap'[datasets'[id]]
             call == calls'[Len(calls')]
             partial == call.arg.partial
         IN /\ call.op = "update" /\ call.id = id
            /\ heap'[datasets[id]] = old
            /\ DOMAIN datasets' = DOMAIN datasets
            /\ new.id = id
            /\ new.type = IF "type" \in DOMAIN partial THEN partial.type ELSE old.type
            /\ new.schema = IF "schema" \in DOMAIN partial THEN partial.schema ELSE old.schema
            /\ new.data = IF "data" \in DOMAIN partial THEN partial.data ELSE old.data
            /\ new.timestamp = old.timestamp
            /\ new.version = old.version
            /\ new.name = IF "name" \in DOMAIN partial
                          THEN (IF partial.name = "" THEN "Untitled Dataset" ELSE partial.name)
                          ELSE old.name
            /\ DOMAIN new.metadata
                 = DOMAIN old.metadata \cup DOMAIN optionsMetadata(call.arg.options)
                     \cup {"version", "updatedAt"}
            /\ new.metadata.updatedAt = now
            /\ \A k \in DOMAIN new.metadata \ {"version", "updatedAt"} :
                 new.metadata[k] = Merge(old.metadata, optionsMetadata(call.arg.options))[k]]_vars

\* C3 witness: an update whose partial carries another id, new rows and a new schema
\* has re-pointed a registered id
C3_Witness ==
  \E i \in 1..Len(calls) :
    /\ calls[i].op = "update"
    /\ "id" \in DOMAIN calls[i].arg.partial
    /\ calls[i].id \in DOMAIN datasets
    /\ datasets[calls[i].id] = calls[i].ref

\* C3 as stated: the new value's fields are partial merged over the old fields, the
\* metadata among them
C3_PartialMergedOverAllFields ==
  [][\A id \in DOMAIN datasets :
       UpdateStep(id) =>
         LET old == heap[datasets[id]]
             new == heap'[datasets'[id]]
             partial == calls'[Len(calls')].arg.partial
         IN /\ heap'[datasets[id]] = old
            /\ new.id = id
            /\ new.name = IF "name" \in DOMAIN partial THEN partial.name ELSE old.name
            /\ new.data = IF "data" \in DOMAIN partial THEN partial.data ELSE old.data
            /\ new.schema = IF "schema" \in DOMAIN partial THEN partial.schema ELSE old.schema
            /\ "metadata" \in DOMAIN partial =>
                 \A k \in DOMAIN partial.metadata :
                   k \in DOMAIN new.metadata /\ new.metadata[k] = partial.metadata[k]]_vars

\* the time the dataset id was registered at
RegisteredAt(id) ==
  LET i == CHOOSE j \in 1..Len(calls) :
             calls[j].op \in {"create", "clone", "merge"} /\ calls[j].id = id
  IN calls[i].at

\* C4: after a successful update(id, ...), list() reports the time of that update as
\* id's updatedAt and the time of its creation as createdAt
C4_ListReportsUpdateTime ==
  \A i \in 1..Len(calls) :
    (calls[i].st = "ok" /\ LastUpdate(i) /\ calls[i].id \in DOMAIN datasets) =>
      /\ ListEntry(calls[i].id).updatedAt = calls[i].at
      /\ ListEntry(calls[i].id).createdAt = RegisteredAt(calls[i].id)

\* C6: once delete(id) has completed, get(id) returns no dataset and list() has no entry
\* for id; with a storage collaborator attached each delete(id) has requested
\* storage.delete(id) exactly once
C6_DeletedStaysGone ==
  \A i \in 1..Len(calls) :
    (calls[i].op = "delete" /\ calls[i].st = "ok") =>
      /\ get(calls[i].id) = 0
      /\ \A e \in list : e.id # calls[i].id
      /\ hasStorage =>
           /\ calls[i].req = "delete"
           /\ Cardinality({j \in 1..Len(calls) : calls[j].req = "delete" /\ calls[j].id = calls[i].id})
                = Cardinality({j \in 1..Len(calls) : calls[j].op = "delete" /\ calls[j].id = calls[i].id})

\* C6 witness: a delete of a dataset that had been created and updated has completed
\* through the storage collaborator
C6_Witness ==
  \E i \in 1..Len(calls) :
    /\ calls[i].op = "delete"
    /\ calls[i].st = "ok"
    /\ hasStorage
    /\ \E j \in 1..(i - 1) : calls[j].op = "update" /\ calls[j].id = calls[i].id

Deleted(id) == \E i \in 1..Len(calls) : calls[i].op = "delete" /\ calls[i].id = id

\* C7: when updates of one id overlap, then whatever the order their saves return in,
\* the registry holds the value of the update issued last, and id is in both maps
C7_LastIssuedUpdateWins ==
  \A i \in 1..Len(calls) :
    (LastUpdate(i) /\ ~Deleted(calls[i].id)) =>
      /\ calls[i].id \in DOMAIN datasets
      /\ calls[i].id \in DOMAIN metadata
      /\ datasets[calls[i].id] = calls[i].ref

\* C7 witness: two updates of one id overlapped and the save of the first returned
\* after the save of the second (the storage holds the first update's value)
C7_Witness ==
  \E i, j \in 1..Len(calls) :
    /\ i < j
    /\ calls[i].op = "update" /\ calls[j].op = "update"
    /\ calls[i].id = calls[j].id
    /\ calls[i].st = "ok" /\ calls[j].st = "ok"
    /\ calls[i].id \in DOMAIN stored
    /\ stored[calls[i].id] = calls[i].ref
    /\ datasets[calls[i].id] = calls[j].ref

(***************************************************************************)
(* Properties of the calls that look an id up.                             *)
(***************************************************************************)
\* C5: update, clone and createPipeline on an id the registry does not hold fail with
\* not-found in the calling step, issue no storage call and leave both maps as they were
C5_AbsentIdFailsFast ==
  [][(/\ lastCall' # lastCall
      /\ lastCall'.op \in {"update", "clone", "createPipeline"}
      /\ lastCall'.key \notin DOMAIN datasets) =>
       /\ lastCall'.out = "NotFound"
       /\ datasets' = datasets
       /\ metadata' = metadata
       /\ calls' = calls
       /\ stored' = stored
       /\ heap' = heap]_vars

\* C5 witness: an update of an absent id has failed while the registry holds a dataset
\* and a save is pending
C5_Witness ==
  /\ lastCall.op = "update"
  /\ lastCall.out = "NotFound"
  /\ DOMAIN datasets # {}
  /\ \E i \in 1..Len(calls) : Pending(i)

\* C8: after create(name, rows) has completed, createPipeline(name) returns a pipeline
\* bound to that dataset
C8_PipelineByName ==
  \A i \in 1..Len(calls) :
    (/\ calls[i].op = "create"
     /\ calls[i].st = "ok"
     /\ calls[i].id \in DOMAIN datasets
     /\ lastCall.op = "createPipeline"
     /\ lastCall.key = heap[datasets[calls[i].id]].name) =>
      /\ lastCall.out = "ok"
      /\ lastCall.ref = datasets[calls[i].id]

(***************************************************************************)
(* Properties of the pipeline.                                             *)
(***************************************************************************)
\* the steps in append order, each with the arguments of its own chain call
RECURSIVE inOrder(_, _)
inOrder(stps, data) ==
  IF stps = <<>> THEN data ELSE inOrder(Tail(stps), applyStep(stps[1], data))

\* a step whose function can throw by itself: a transform that rejects a row, or an
\* aggregator that fails on any partition
mayRaise(step) ==
  \/ step.type = "map" /\ \E d \in SourceRows : \E r \in 1..Len(d) :
                             transformRaises(step.transform, d[r])
  \/ step.type = "aggregate" /\ \E i \in 1..Len(step.aggregations) :
                                   aggregationRaises(step.aggregations[i].fn)

\* C9: execute() applies every step in append order with the arguments given to that
\* step's own chain call, whatever was appended after it (chains whose functions all
\* return)
C9_StepsKeepTheirArguments ==
  (/\ lastRun.op = "execute"
   /\ source # NoRec
   /\ \A k \in 1..lastRun.n : ~mayRaise(steps[k])) =>
    /\ lastRun.out = "ok"
    /\ lastRun.rows = inOrder(SubSeq(steps, 1, lastRun.n), source.data)

\* C10: execute() and preview() leave the source's rows, in their order and with their
\* keys and values, and the source's schema as they were
C10_SourceUntouched ==
  [][(lastRun' # lastRun \/ result' # result) =>
       /\ source'.data = source.data
       /\ source'.schema = source.schema
       /\ source' = source]_vars

\* C10 witness: execute() has run a descending sort and a rename over a source of
\* several rows and produced other rows than the source's
C10_Witness ==
  /\ lastRun.op = "execute"
  /\ lastRun.out = "ok"
  /\ lastRun.n = 2
  /\ steps[1].type = "sort" /\ steps[1].direction = "desc"
  /\ steps[2].type = "rename"
  /\ Len(source.data) > 1
  /\ result # NoRec
  /\ result.data # source.data
  /\ result.schema # source.schema

\* C11: a dataset execute() has returned keeps its id, rows, schema and metadata when
\* further steps are appended and execute() or preview() is called again, and a later
\* execute() returns another dataset object
C11_ResultsStayAsReturned ==
  [][/\ Len(produced') >= Len(produced)
     /\ \A i \in 1..Len(produced) : produced'[i] = produced[i]
     /\ (resultNo' # resultNo =>
           /\ Len(produced') = Len(produced) + 1
           /\ result' = produced'[Len(produced')])]_vars

\* C11 witness: two results of the same pipeline, the second made after steps were
\* appended, with other rows than the first, and a preview() since
C11_Witness ==
  /\ Len(produced) = 2
  /\ produced[1].metadata.steps_count < produced[2].metadata.steps_count
  /\ produced[1].data # produced[2].data
  /\ produced[1].id # produced[2].id
  /\ lastRun.op = "preview"

\* the first rows of the source, at most maxRows of them
firstRows(maxRows) == [i \in 1..Min(maxRows, Len(source.data)) |-> source.data[i]]

\* C12: preview(maxRows) returns the step chain applied to the first maxRows source rows
\* and leaves the step list, the source and the stored result as they were, so an
\* execute() returns what the steps make of the whole source however many previews ran
C12_PreviewLeavesPipeline ==
  [][/\ (lastRun' # lastRun /\ lastRun'.op = "preview" /\ source # NoRec) =>
          /\ steps' = steps
          /\ source' = source
          /\ result' = result
          /\ produced' = produced
          /\ LET r == runSteps(steps, 1, firstRows(lastRun'.arg))
             IN lastRun'.rows = r.rows /\ (lastRun'.out = "ok") = r.ok
     /\ (lastRun' # lastRun /\ lastRun'.op = "execute" /\ source # NoRec) =>
          LET r == runSteps(steps, 1, source.data)
          IN lastRun'.rows = r.rows /\ (lastRun'.out = "ok") = r.ok]_vars

\* C12 witness: a preview of one row of a three-row source through a step that keeps
\* rows, on a pipeline that already holds a result
C12_Witness ==
  /\ lastRun.op = "preview"
  /\ lastRun.arg = 1
  /\ lastRun.out = "ok"
  /\ Len(source.data) = 3
  /\ Len(steps) >= 1
  /\ Len(lastRun.rows) = 1
  /\ result # NoRec

\* the rows step k is handed, when every step before it returned
RECURSIVE dataAt(_, _, _)
dataAt(stps, k, data) ==
  IF k = 1 THEN data ELSE stepExecute(stps, k - 1, dataAt(stps, k - 1, data)).rows

\* step k is the first step to throw, and what it throws comes from a caller's function
userRaisesAt(stps, k, data) ==
  /\ \A j \in 1..(k - 1) : stepExecute(stps, j, dataAt(stps, j, data)).ok
  /\ stepExecute(stps, k, dataAt(stps, k, data)).err \in {"Error", "ReferenceError"}

\* C13: when a step's user function throws during execute(), execute() fails with that
\* error, no later step runs, no result is produced or stored, and the source is as before
C13_FailedExecuteCommitsNothing ==
  [][\A k \in 1..Len(steps) :
       (/\ lastRun' # lastRun
        /\ lastRun'.op = "execute"
        /\ source # NoRec
        /\ userRaisesAt(steps, k, source.data)) =>
          /\ lastRun'.out = stepExecute(steps, k, dataAt(steps, k, source.data)).err
          /\ lastRun'.ran = k
          /\ result' = result
          /\ produced' = produced
          /\ resultNo' = resultNo
          /\ source' = source]_vars

\* C13 witness: the first of two steps threw in an execute() of a pipeline that holds
\* the result of an earlier execute()
C13_Witness ==
  /\ lastRun.op = "execute"
  /\ lastRun.out = "Error"
  /\ lastRun.n = 2
  /\ lastRun.ran = 1
  /\ Len(produced) = 1
  /\ result = produced[1]

\* the aggregation a caller asks for, over the rows of one partition
exactAggregation(fn, rows) ==
  CASE fn = "COUNT" -> IntV(Len(rows))
    [] fn = "sumA" -> IntV(sumA(rows))
    [] fn = "SUM" -> IntV(sumA(rows))

\* the tuple of groupBy values of a row
groupTuple(row, fields) == [i \in 1..Len(fields) |-> Get(row, fields[i])]

\* one row for each tuple of groupBy values: the tuple's values under the groupBy
\* fields, then each aggregation over the rows holding that tuple
partitioned(data, aggregations, fields) ==
  {LET rows == SelectSeq(data, LAMBDA row : groupTuple(row, fields) = t)
   IN [i \in 1..Len(fields) |-> [k |-> fields[i], v |-> t[i]]]
      \o [i \in 1..Len(aggregations) |->
            [k |-> aggregations[i].name, v |-> exactAggregation(aggregations[i].fn, rows)]]
   : t \in {groupTuple(data[r], fields) : r \in 1..Len(data)}}

\* C14: aggregate(aggs, groupBy) yields one row for each distinct tuple of groupBy values,
\* carrying those values under the groupBy fields and each aggregation over the rows of
\* that partition only
C14_OneRowPerGroupWithItsValues ==
  (/\ lastRun.op = "execute"
   /\ lastRun.n = 1
   /\ steps[1].type = "aggregate"
   /\ steps[1].groupBy.given
   /\ source # NoRec) =>
     /\ lastRun.out = "ok"
     /\ Len(lastRun.rows) = Cardinality(partitioned(source.data, steps[1].aggregations,
                                                    steps[1].groupBy.fields))
     /\ {lastRun.rows[i] : i \in 1..Len(lastRun.rows)} =
          partitioned(source.data, steps[1].aggregations, steps[1].groupBy.fields)

\* merge(ids) threw because its first id is not registered
mergeFailed(ids) ==
  /\ lastCall' # lastCall
  /\ lastCall'.op = "merge"
  /\ lastCall'.out = "NotFound"
  /\ lastCall'.key = ids[1]

\* merge(ids) registered a dataset: a new object tagged with the id list
mergeRegistered(ids) ==
  /\ Len(heap') = Len(heap) + 1
  /\ heap'[Len(heap')].type = "merged"
  /\ heap'[Len(heap')].metadata.source_datasets = ids

\* the rows of the listed datasets that are registered, in list order
RECURSIVE concatenated(_)
concatenated(ids) ==
  IF ids = <<>> THEN <<>>
  ELSE (IF ids[1] \in DOMAIN datasets THEN heap[datasets[ids[1]]].data ELSE <<>>)
       \o concatenated(Tail(ids))

\* C15: merge(ids) succeeds whenever one of the ids is registered, wherever it stands in
\* the list; the new dataset holds the rows of the listed registered datasets in list
\* order, the sources stay as they were and the new id is none of theirs
C15_MergeNeedsOneValidId ==
  [][\A ids \in MergeInputs :
       (/\ mergeFailed(ids) \/ mergeRegistered(ids)
        /\ \A k \in 1..Len(ids) : ids[k] \in DOMAIN datasets \cup {AbsentId}
        /\ \E k \in 1..Len(ids) : ids[k] \in DOMAIN datasets) =>
         /\ mergeRegistered(ids)
         /\ heap'[Len(heap')].data = concatenated(ids)
         /\ getRowCount(heap'[Len(heap')]) = Len(concatenated(ids))
         /\ \A i \in 1..Len(heap) : heap'[i] = heap[i]
         /\ \A k \in 1..Len(ids) : heap'[Len(heap')].id # ids[k]
         /\ datasets'[heap'[Len(heap')].id] = Len(heap')]_vars

\* C16: once startup has put the persisted datasets back, every id the registry holds
\* has a lifecycle entry, and list() reports a creation and an update time for it
C16_RestoredHaveLifecycle ==
  \A id \in DOMAIN datasets :
    /\ id \in DOMAIN metadata
    /\ ListEntry(id).createdAt # 0
    /\ ListEntry(id).updatedAt # 0

(***************************************************************************)
(* Properties of the page loader.                                          *)
(***************************************************************************)
\* the invocations whose fetch of page p is unresolved
Fetching(p) == {i \in 1..Len(loads) : loads[i].page = p /\ loads[i].pc = "fetching"}

\* C17: while a fetch of page p is unresolved, further loadPage(p) calls, direct or
\* through prefetch, call the dataLoader no more: one fetch of p at most is unresolved
C17_OneFetchInFlight ==
  \A p \in Pages \cup {1 + q : q \in Pages} : Cardinality(Fetching(p)) <= 1

\* C17 witness: a fetch of a page is unresolved while a direct call and a prefetch call
\* for the same page wait for it
C17_Witness ==
  \E p \in Pages :
    /\ Cardinality(Fetching(p)) = 1
    /\ \E i, j \in 1..Len(loads) :
         /\ loads[i].page = p /\ loads[i].pc = "waiting" /\ loads[i].via = "direct"
         /\ loads[j].page = p /\ loads[j].pc = "waiting" /\ loads[j].via = "prefetch"

\* C18: right after a loadPage(p) has stored its page every cached index is p-1, p or
\* p+1, and at every suspension point loadedPages is the cache's key set and the cache
\* holds three pages at most
C18_CacheWindow ==
  [][/\ \A i \in 1..Len(loads) :
          (loads[i].pc = "fetching" /\ loads'[i].pc = "returned") =>
            /\ loads[i].page \in DOMAIN cache'
            /\ DOMAIN cache' \subseteq pagesToKeep(loads[i].page)
     /\ loadedPages' = DOMAIN cache'
     /\ Cardinality(DOMAIN cache') <= 3]_vars

\* C18 witness: three pages are cached and a load of a page outside their window has
\* just evicted down to its own window
C18_Witness ==
  /\ Len(loads) = MaxLoads
  /\ \A i \in 1..Len(loads) : loads[i].pc = "returned"
  /\ Cardinality({loads[i].page : i \in 1..Len(loads)}) = 4
  /\ Cardinality(DOMAIN cache) = 1

(***************************************************************************)
(* Properties of the stream processor.                                     *)
(***************************************************************************)
\* ceil(n / c)
chunkCount(n, c) == (n + c - 1) \div c

\* the k-th of the consecutive slices of c rows
nthChunk(data, c, k) == [j \in 1..(Min(k * c, Len(data)) - (k - 1) * c) |-> data[(k - 1) * c + j]]

\* what the k-th chunk adds to the log: the callback on the slice, then one progress
\* report with the cumulative row count, then the yield
chunkEvents(k) ==
  LET c == processor.chunkSize
      done == Min(k * c, run.total)
  IN <<Event("chunk", nthChunk(run.data, c, k), (k - 1) * c, run.total, 0)>>
     \o (IF run.onProgress
         THEN <<Event("progress", <<>>, done, run.total, percent(done, run.total))>>
         ELSE <<>>)
     \o (IF run.yield THEN <<Event("yield", <<>>, 0, 0, 0)>> ELSE <<>>)

RECURSIVE chunkLog(_)
chunkLog(k) == IF k = 0 THEN <<>> ELSE chunkLog(k - 1) \o chunkEvents(k)

\* what the callbacks' return values accumulate to over the first k chunks
RECURSIVE accumulated(_)
accumulated(k) ==
  IF k = 0 THEN <<>>
  ELSE accumulated(k - 1) \o
       (CASE processor.onChunk = "echo" -> nthChunk(run.data, processor.chunkSize, k)
          [] processor.onChunk = "count" -> <<Len(nthChunk(run.data, processor.chunkSize, k))>>
          [] processor.onChunk = "none" -> <<>>)

\* C19: process(data) calls the per-chunk callback ceil(n/c) times on the consecutive
\* slices of data, reports progress once after each chunk with the cumulative count,
\* yields after each chunk unless yielding is off, and calls onComplete once, last, with
\* the accumulated results
C19_ChunksProgressComplete ==
  (run # NoRec /\ run.pc = "done") =>
    LET count == chunkCount(run.total, processor.chunkSize)
    IN /\ run.chunks = count
       /\ events = Append(chunkLog(count), Event("complete", accumulated(count), 0, 0, 0))
       /\ run.processed = run.total
       /\ run.results = accumulated(count)

\* C19 witness: three rows went through in chunks of two, with progress reports and
\* yields, and onComplete got the rows back
C19_Witness ==
  /\ run # NoRec
  /\ run.pc = "done"
  /\ run.total = 3
  /\ processor.chunkSize = 2
  /\ processor.onChunk = "echo"
  /\ run.onProgress
  /\ run.yield
  /\ Len(events) = 7
  /\ events[7].rows = <<1, 2, 3>>

\* the per-chunk callback has thrown
callbackRaised == run # NoRec /\ processor.failAt > 0 /\ run.chunks >= processor.failAt

\* C20: when the per-chunk callback throws and no onError handler was supplied,
\* process() fails, no later chunk is processed and onComplete is not called; when a
\* handler was supplied it receives the error and process() does not fail
C20_ErrorsPropagateUnlessHandled ==
  callbackRaised =>
    IF processor.hasOnError
    THEN /\ run.pc # "failed"
         /\ \E k \in 1..Len(events) : events[k].e = "error"
    ELSE /\ run.pc = "failed"
         /\ run.chunks = processor.failAt
         /\ events[Len(events)].e = "chunk"
         /\ \A k \in 1..Len(events) : events[k].e # "complete"

(***************************************************************************)
(* Properties of the validator.                                            *)
(***************************************************************************)
\* the cells of the validated rows: row index (from 0) and column
Cells ==
  {[row |-> r - 1, col |-> validator.schema.columns[c]] :
     r \in 1..Len(validator.data), c \in 1..Len(validator.schema.columns)}

cellValue(cell) == Get(validator.data[cell.row + 1], cell.col.name)

\* a null or undefined value under a column declared non-nullable
missingRequired(cell) ==
  cell.col.nullable = FALSE /\ cellValue(cell).t \in {"null", "undef"}

\* a present value whose inferred type is not the declared one, mixed aside
mistyped(cell) ==
  /\ cellValue(cell).t \notin {"null", "undef"}
  /\ cell.col.type # "mixed"
  /\ inferType(cellValue(cell)) # cell.col.type

errorsAbout(cell, isRequired) ==
  {k \in 1..Len(report.errors) :
     /\ report.errors[k].row = cell.row
     /\ report.errors[k].column = cell.col.name
     /\ (report.errors[k].error = "required value is null") = isRequired}

\* C21: validate(rows) returns a report with valid true exactly when errors is empty,
\* totalRows the number of rows, one 'required value is null' error for each null or
\* undefined value under a non-nullable column, one 'type mismatch' error for each
\* present value whose inferred type differs from a declared type other than mixed,
\* and no other error
C21_ValidateReportsEveryCell ==
  report # NoRec =>
    /\ report.valid = (report.errors = <<>>)
    /\ report.totalRows = Len(validator.data)
    /\ \A cell \in Cells :
         /\ Cardinality(errorsAbout(cell, TRUE)) = IF missingRequired(cell) THEN 1 ELSE 0
         /\ Cardinality(errorsAbout(cell, FALSE)) = IF mistyped(cell) THEN 1 ELSE 0
    /\ Len(report.errors) =
         Cardinality({cell \in Cells : missingRequired(cell) \/ mistyped(cell)})

\* C21 witness: a report over two rows, one of them omitting a declared key, that holds
\* both kinds of error
C21_Witness ==
  /\ report # NoRec
  /\ Len(validator.data) = 2
  /\ \E r \in 1..2 : ~HasKey(validator.data[r], "b")
  /\ Len(validator.schema.columns) = 2
  /\ ~report.valid
  /\ \E cell \in Cells : missingRequired(cell) /\ Cardinality(errorsAbout(cell, TRUE)) = 1
  /\ \E cell \in Cells : mistyped(cell) /\ Cardinality(errorsAbout(cell, FALSE)) = 1

\* C21 witness of the empty cases: a schema with no columns, or no rows, validates
C21_EmptyWitness ==
  /\ report # NoRec
  /\ report.valid
  /\ validator.schema.columns = <<>>
  /\ Len(validator.data) = 2

(***************************************************************************)
(* Properties of the sampler.                                              *)
(***************************************************************************)
\* the partitions of the input by the stringified field value, in order of first
\* appearance, each as the input indexes it holds
RECURSIVE partitionsByString(_, _)
partitionsByString(data, r) ==
  IF r > Len(data)
  THEN <<>>
  ELSE LET key == String(Get(data[r], "g"))
       IN IF \E q \in 1..(r - 1) : String(Get(data[q], "g")) = key
          THEN partitionsByString(data, r + 1)
          ELSE <<SelectSeq([q \in 1..Len(data) |-> q],
                           LAMBDA q : String(Get(data[q], "g")) = key)>>
               \o partitionsByString(data, r + 1)

\* the indexes a systematic sample of n out of a partition takes
RECURSIVE takenFrom(_, _, _)
takenFrom(parts, n, s) ==
  IF s > Len(parts)
  THEN <<>>
  ELSE (IF Len(parts[s]) <= n
        THEN parts[s]
        ELSE [i \in 1..n |-> parts[s][((i - 1) * Len(parts[s])) \div n + 1]])
       \o takenFrom(parts, n, s + 1)

\* C22: stratifiedSample(data, field, k) over more than k rows partitions the rows by the
\* stringified field value, samples each partition systematically and returns exactly k
\* rows of data, no input index twice
C22_StratifiedSampleOfExactlyK ==
  (/\ sampling # NoRec
   /\ sampling.fn = "stratifiedSample"
   /\ Len(sampling.data) > sampling.sampleSize) =>
     LET parts == partitionsByString(sampling.data, 1)
         all == takenFrom(parts, Max(1, sampling.sampleSize \div Len(parts)), 1)
     IN /\ Len(sampled) = sampling.sampleSize
        /\ \A i, j \in 1..Len(sampled) : sampled[i] = sampled[j] => i = j
        /\ \A i \in 1..Len(sampled) : sampled[i] \in 1..Len(sampling.data)
        /\ sampled = SubSeq(all, 1, Min(sampling.sampleSize, Len(all)))

\* the part of C22 that holds: the rows returned are rows of data, none twice, and never
\* more than k
C22_SampleDrawnFromData ==
  (/\ sampling # NoRec
   /\ sampling.fn = "stratifiedSample"
   /\ Len(sampling.data) > sampling.sampleSize) =>
     /\ Len(sampled) <= sampling.sampleSize
     /\ \A i, j \in 1..Len(sampled) : sampled[i] = sampled[j] => i = j
     /\ \A i \in 1..Len(sampled) : sampled[i] \in 1..Len(sampling.data)

\* fewer than k rows are returned
C22_ShortSample ==
  /\ sampling # NoRec
  /\ sampling.fn = "stratifiedSample"
  /\ Len(sampling.data) > sampling.sampleSize
  /\ Len(sampled) < sampling.sampleSize

\* 0, false and the empty string fall into one stratum
C22_FalsyValuesShareStratum ==
  /\ sampling # NoRec
  /\ sampling.fn = "stratifiedSample"
  /\ sampling.sampleSize = 3
  /\ Len(sampling.data) = 4
  /\ {Get(sampling.data[r], "g") : r \in 1..3} = {IntV(0), BoolV(FALSE), StrV("")}
  /\ Get(sampling.data[4], "g") = StrV("x")
  /\ sampled = <<1, 4>>

(***************************************************************************)
(* Properties of the page loader's callers.                                *)
(***************************************************************************)
\* invocation i called the dataLoader
startedFetch(i) ==
  \/ loads[i].pc \in {"fetching", "failed"}
  \/ loads[i].pc = "returned" /\ loads[i].ret.k = "data"

\* the fetch that was unresolved when invocation j found its page loading
joinedFetch(j) ==
  CHOOSE i \in 1..(j - 1) :
    /\ loads[i].page = loads[j].page
    /\ startedFetch(i)
    /\ \A h \in (i + 1)..(j - 1) : ~(loads[h].page = loads[j].page /\ startedFetch(h))

\* invocation j, which waited for another invocation's fetch, returns or fails in this step
joinerSettles(j) ==
  /\ j \in 1..Len(loads)
  /\ loads[j].pc = "waiting"
  /\ loads'[j].pc # "waiting"

\* C23: a loadPage(p) call that joined a fetch of p resolves, when that fetch has
\* succeeded, to the page contents the call that started the fetch resolved to, whatever
\* loads of other pages completed in between
C23_JoinerGetsTheFetchedPage ==
  [][\A j \in 1..Len(loads) :
       (joinerSettles(j) /\ loads[joinedFetch(j)].pc = "returned") =>
         /\ loads'[j].pc = "returned"
         /\ loads'[j].ret.k # "undefined"
         /\ loads'[j].ret.data = loads[joinedFetch(j)].ret.data]_vars

\* the joiner resolves to undefined although the fetch it joined succeeded: the page was
\* evicted by the load of a page two or more away
C23_JoinerFindsPageEvicted ==
  \E j \in 1..Len(loads) :
    /\ loads[j].pc = "returned"
    /\ loads[j].ret.k = "undefined"
    /\ j > 1
    /\ loads[j - 1].page = loads[j].page
    /\ loads[j - 1].pc = "returned"
    /\ loads[j - 1].ret.k = "data"
    /\ loads[j].page \notin DOMAIN cache

\* C24: when the fetch of page p fails, the call that started it fails and so does every
\* loadPage(p) call that joined it
C24_JoinersSeeTheFailure ==
  [][/\ \A i \in 1..Len(loads) :
          (loads[i].pc = "fetching" /\ loads'[i].pc # "fetching"
             /\ loads[i].page \notin DOMAIN cache') => loads'[i].pc = "failed"
     /\ \A j \in 1..Len(loads) :
          (joinerSettles(j) /\ loads[joinedFetch(j)].pc = "failed") =>
            loads'[j].pc = "failed"]_vars

\* the joiner of a failed fetch resolves, and to undefined
C24_JoinerResolvesWithNothing ==
  \E j \in 1..Len(loads) :
    /\ loads[j].pc = "returned"
    /\ loads[j].ret.k = "undefined"
    /\ j > 1
    /\ loads[j - 1].page = loads[j].page
    /\ loads[j - 1].pc = "failed"

\* the calls are loadPage(p) and then prefetch(p), for a p >= 1, and each has resolved
loadedAndPrefetched(p) ==
  /\ p >= 1
  /\ Len(loads) = 3
  /\ loads[1].page = p /\ loads[1].via = "direct"
  /\ loads[2].page = p - 1 /\ loads[2].via = "prefetch"
  /\ loads[3].page = p + 1 /\ loads[3].via = "prefetch"
  /\ \A i \in 1..3 : loads[i].pc = "returned"

\* C25: after loadPage(p) and prefetch(p), p >= 1, once the fetches have succeeded the
\* cache holds p-1, p and p+1
C25_PrefetchFillsTheWindow ==
  \A p \in Pages : loadedAndPrefetched(p) => {p - 1, p, p + 1} \subseteq DOMAIN cache

\* what holds instead: the cache holds p and the neighbour whose fetch resolved last
C25_OneNeighbourLeft ==
  \A p \in Pages :
    loadedAndPrefetched(p) =>
      /\ p \in DOMAIN cache
      /\ Cardinality(DOMAIN cache \cap {p - 1, p + 1}) = 1

(***************************************************************************)
(* Properties of the registry under storage failures.                      *)
(***************************************************************************)
\* the storage collaborator rejects the request of call i in this step, and no call was
\* issued after call i
rejectedLast(i) ==
  /\ i = Len(calls)
  /\ Pending(i)
  /\ calls'[i].st = "failed"

\* the id of call i was registered when call i was issued
registeredBefore(i) ==
  \E j \in 1..(i - 1) :
    /\ calls[j].id = calls[i].id
    /\ calls[j].op \in {"create", "clone"}
    /\ \A h \in (j + 1)..(i - 1) : ~(calls[h].op = "delete" /\ calls[h].id = calls[i].id)

\* C26: when the storage collaborator rejects the save of a create or update, or the
\* delete of a delete, the operation fails, the request is not issued again, and the
\* dataset map and the lifecycle map are as they were before the operation began
C26_StorageFailureLeavesRegistry ==
  [][\A i \in 1..Len(calls) :
       rejectedLast(i) =>
         /\ Len(calls') = Len(calls)
         /\ stored' = stored
         /\ calls[i].op \in {"create", "clone"} =>
              /\ calls[i].id \notin DOMAIN datasets'
              /\ calls[i].id \notin DOMAIN metadata'
         /\ calls[i].op = "update" =>
              /\ calls[i].id \in DOMAIN datasets'
              /\ datasets'[calls[i].id] # calls[i].ref
         /\ (calls[i].op = "delete" /\ registeredBefore(i)) =>
              /\ calls[i].id \in DOMAIN datasets'
              /\ calls[i].id \in DOMAIN metadata']_vars

\* what holds instead: a rejected request fails its operation, is not issued again, and
\* leaves the maps as the operation had set them before it awaited the storage call
C26_FailureKeepsTheChange ==
  [][\A i \in 1..Len(calls) :
       rejectedLast(i) =>
         /\ Len(calls') = Len(calls)
         /\ stored' = stored
         /\ datasets' = datasets
         /\ metadata' = metadata
         /\ calls[i].op \in {"create", "clone"} => calls[i].id \in DOMAIN datasets'
         /\ calls[i].op = "update" => datasets'[calls[i].id] = calls[i].ref
         /\ calls[i].op = "delete" => calls[i].id \notin DOMAIN datasets']_vars

\* a create whose save was rejected has left its dataset registered and nothing stored
C26_FailedCreateStaysRegistered ==
  /\ Len(calls) = 1
  /\ calls[1].op = "create"
  /\ calls[1].st = "failed"
  /\ calls[1].id \in DOMAIN datasets
  /\ calls[1].id \in DOMAIN metadata
  /\ stored = NoRec

(***************************************************************************)
(* Properties of the registry and its storage.                             *)
(***************************************************************************)
allCompleted == \A i \in 1..Len(calls) : calls[i].st = "ok"

\* C27: with a storage collaborator attached from the start that never fails and applies
\* the requests in issue order, once every create, update, delete, clone and merge call
\* has completed the ids saved are the registry's ids and the saved form of each id is
\* the registry's dataset for that id
C27_StorageMirrorsRegistry ==
  allCompleted =>
    /\ DOMAIN stored = DOMAIN datasets
    /\ \A id \in DOMAIN datasets : toJSON(heap[stored[id]]) = toJSON(heap[datasets[id]])

\* C27 witness: a create and two updates of its dataset have completed and the saved
\* form is the dataset of the second update, which the registry holds
C27_Witness ==
  /\ Len(calls) = 3
  /\ allCompleted
  /\ calls[2].op = "update" /\ calls[3].op = "update"
  /\ calls[2].id = calls[3].id
  /\ stored[calls[3].id] = calls[3].ref
  /\ datasets[calls[3].id] = calls[3].ref

\* C27 witness of a delete: a create, an update and a delete of one id have completed
\* and neither the registry nor the storage holds the id
C27_DeletedWitness ==
  /\ Len(calls) = 3
  /\ allCompleted
  /\ calls[2].op = "update" /\ calls[3].op = "delete"
  /\ calls[3].id = calls[1].id
  /\ DOMAIN datasets = {}
  /\ stored = NoRec

(***************************************************************************)
(* Properties of the virtual scroller.                                     *)
(***************************************************************************)
\* a query returns in this step
queried(op) == range' # range /\ range'.op = op

\* C28: after any sequence of setTotalItems and updateScrollTop calls getVisibleRange
\* returns 0 <= start <= end <= totalItems with offsetY = start * itemHeight and
\* totalHeight = totalItems * itemHeight, and renderPlaceholder's visibleCount is not
\* negative
C28_RangeIsOrdered ==
  [][/\ queried("getVisibleRange") =>
          /\ 0 <= range'.ret.start
          /\ range'.ret.start <= range'.ret.end
          /\ range'.ret.end <= scroll.totalItems
          /\ range'.ret.offsetY = range'.ret.start * scroll.itemHeight
          /\ range'.ret.totalHeight = scroll.totalItems * scroll.itemHeight
     /\ queried("renderPlaceholder") => range'.ret.visibleCount >= 0]_vars

\* what holds instead: start is not negative, end is at most totalItems, offsetY and
\* totalHeight are the products
C28_RangeWithinItems ==
  [][queried("getVisibleRange") =>
       /\ 0 <= range'.ret.start
       /\ range'.ret.end <= scroll.totalItems
       /\ range'.ret.offsetY = range'.ret.start * scroll.itemHeight
       /\ range'.ret.totalHeight = scroll.totalItems * scroll.itemHeight]_vars

\* renderPlaceholder has reported a negative visibleCount: the scroll position lies past
\* the items
C28_NegativeVisibleCount ==
  /\ range.op = "renderPlaceholder"
  /\ range.ret.visibleCount < 0
  /\ scroll.scrollTop > scroll.totalItems * scroll.itemHeight

(***************************************************************************)
(* Properties of rename().                                                 *)
(***************************************************************************)
mappedKeys(mapping) == {mapping[i][1] : i \in 1..Len(mapping)}

targets(mapping) == {mapping[i][2] : i \in 1..Len(mapping)}

\* the name the mapping gives key k
nameFor(mapping, k) ==
  IF k \in mappedKeys(mapping)
  THEN mapping[CHOOSE i \in 1..Len(mapping) : mapping[i][1] = k][2]
  ELSE k

\* the mapping's target names are pairwise distinct and none is an unmapped key of the row
cleanTargets(mapping, row) ==
  /\ Cardinality(targets(mapping)) = Len(mapping)
  /\ targets(mapping) \cap (Keys(row) \ mappedKeys(mapping)) = {}

\* every value of the input row is in the output row under its key's new name
keepsValues(mapping, inRow, outRow) ==
  \A k \in Keys(inRow) :
    /\ HasKey(outRow, nameFor(mapping, k))
    /\ Get(outRow, nameFor(mapping, k)) = Get(inRow, k)

\* execute() has run a chain of the one step rename(mapping)
renamedOnce ==
  /\ lastRun.op = "execute"
  /\ lastRun.n = 1
  /\ steps[1].type = "rename"
  /\ source # NoRec

\* C29: rename(mapping) puts every value of every input row under mapping[k] when its key
\* k is mapped and under k otherwise, whenever the target names are pairwise distinct and
\* differ from the row's unmapped keys (identity entries and swaps included)
C29_RenameLosesNoValue ==
  renamedOnce =>
    /\ lastRun.out = "ok"
    /\ Len(lastRun.rows) = Len(source.data)
    /\ \A r \in 1..Len(source.data) :
         cleanTargets(steps[1].mapping, source.data[r]) =>
           keepsValues(steps[1].mapping, source.data[r], lastRun.rows[r])

\* what holds instead: no value is lost when, besides, no target name is a key of the
\* mapping
C29_RenameToNewNames ==
  renamedOnce =>
    /\ lastRun.out = "ok"
    /\ Len(lastRun.rows) = Len(source.data)
    /\ \A r \in 1..Len(source.data) :
         (/\ cleanTargets(steps[1].mapping, source.data[r])
          /\ targets(steps[1].mapping) \cap mappedKeys(steps[1].mapping) = {}) =>
           keepsValues(steps[1].mapping, source.data[r], lastRun.rows[r])

\* rename({a: 'a'}) has dropped the key a and its value
C29_IdentityDropsTheKey ==
  /\ renamedOnce
  /\ steps[1].mapping = << <<"a", "a">> >>
  /\ \A r \in 1..Len(lastRun.rows) : ~HasKey(lastRun.rows[r], "a")
  /\ \E r \in 1..Len(source.data) : HasKey(source.data[r], "a")

\* the swap {a: 'b', b: 'a'} has left the original a under a and lost the original b
C29_SwapLosesOneValue ==
  /\ renamedOnce
  /\ steps[1].mapping = << <<"a", "b">>, <<"b", "a">> >>
  /\ Keys(source.data[1]) = {"a", "b"}
  /\ lastRun.rows[1] = Row1("a", Get(source.data[1], "a"))

(***************************************************************************)
(* Properties of serialize() and deserialize().                            *)
(***************************************************************************)
\* deserialize() has just returned the registry built from what serialize() returned for
\* the registry as it is
roundTripped ==
  /\ revived # NoRec
  /\ serialized = serialize
  /\ revived = deserialize(serialized)

\* C30: deserialize(serialize(lake)) holds the ids of lake and, for each id, the same
\* name, kind, rows, schema, dataset metadata and lifecycle metadata
C30_RoundTripKeepsRegistry ==
  roundTripped =>
    /\ DOMAIN revived.datasets = DOMAIN datasets
    /\ DOMAIN revived.metadata = DOMAIN metadata
    /\ \A id \in DOMAIN datasets :
         /\ revived.datasets[id].name = heap[datasets[id]].name
         /\ revived.datasets[id].type = heap[datasets[id]].type
         /\ revived.datasets[id].data = heap[datasets[id]].data
         /\ revived.datasets[id].schema = heap[datasets[id]].schema
         /\ revived.datasets[id].metadata = heap[datasets[id]].metadata
         /\ revived.metadata[id] = metadata[id]

\* what holds instead: the ids, names, kinds, rows, schemas and lifecycle records are
\* kept, and each dataset's own metadata is replaced by its lifecycle record
C30_RoundTripKeepsAllButDatasetMetadata ==
  roundTripped =>
    /\ DOMAIN revived.datasets = DOMAIN datasets
    /\ DOMAIN revived.metadata = DOMAIN metadata
    /\ \A id \in DOMAIN datasets :
         /\ revived.datasets[id].id = id
         /\ revived.datasets[id].name = heap[datasets[id]].name
         /\ revived.datasets[id].type = heap[datasets[id]].type
         /\ revived.datasets[id].data = heap[datasets[id]].data
         /\ revived.datasets[id].schema = heap[datasets[id]].schema
         /\ revived.datasets[id].metadata = metadata[id]
         /\ revived.metadata[id] = metadata[id]

\* a registered pipeline result has come back without its source_id
C30_SourceIdLost ==
  /\ roundTripped
  /\ "result_1" \in DOMAIN datasets
  /\ "source_id" \in DOMAIN heap[datasets["result_1"]].metadata
  /\ "source_id" \notin DOMAIN revived.datasets["result_1"].metadata

====
